---- MODULE Spec2Model ----
(***************************************************************************)
(* Model of the email-generator core (sanitizer, inline token parser,      *)
(* validator, renderer) and of the editor that drives it.                  *)
(*                                                                         *)
(* A JavaScript string is a sequence of one-character strings, indexed     *)
(* from 1; every string function below works character by character, as    *)
(* the regular expressions and String methods of the source do.            *)
(***************************************************************************)
EXTENDS Integers, Sequences, FiniteSets, TLC

VARIABLES
    text,         \* the string argument of the function under call
    blockType,    \* the blockType argument of sanitizeTextContent
    allowedTags,  \* the allowedTags argument of sanitizeHtml
    result,       \* the string the function returned
    call,         \* the function that has been applied, "none" before the call
    block,        \* the block argument of sanitizeBlock
    returned,     \* the block sanitizeBlock returned
    threw,        \* sanitizeBlock threw
    templateType, \* the template chosen (page.tsx `template`, createEmail's templateType)
    inputBlocks,  \* the blocks argument of createEmail
    email,        \* the EmailDocument (EmailEditor's `email` state, createEmail's return value)
    selectedBlockId, \* EmailEditor's `selectedBlockId` state, <<>> for null
    form,         \* BlockForm's `state`
    now           \* Date.now()

callVars == <<text, blockType, allowedTags, result, call, block, returned, threw>>

editorVars == <<templateType, inputBlocks, email, selectedBlockId, form, now>>

vars == <<text, blockType, allowedTags, result, call, block, returned, threw,
          templateType, inputBlocks, email, selectedBlockId, form, now>>

\* ------------------------------------------------------------------------
\* String primitives (ECMAScript String / RegExp character classes)
\* ------------------------------------------------------------------------

LowerLetters == <<"a","b","c","d","e","f","g","h","i","j","k","l","m","n","o","p","q","r","s","t","u","v","w","x","y","z">>

UpperLetters == <<"A","B","C","D","E","F","G","H","I","J","K","L","M","N","O","P","Q","R","S","T","U","V","W","X","Y","Z">>

DigitChars == {"0","1","2","3","4","5","6","7","8","9"}

LowerSet == {LowerLetters[i] : i \in 1..26}

UpperSet == {UpperLetters[i] : i \in 1..26}

IsLetter(c) == c \in LowerSet \/ c \in UpperSet

IsAlnum(c) == IsLetter(c) \/ c \in DigitChars

\* \w of a regular expression: [A-Za-z0-9_]
IsWordChar(c) == IsAlnum(c) \/ c = "_"

IsHexDigit(c) == c \in DigitChars \/ c \in {"a","b","c","d","e","f","A","B","C","D","E","F"}

IsSpace(c) == c \in {" ", "\t", "\n"}

ToLowerChar(c) == IF c \in UpperSet THEN LowerLetters[CHOOSE i \in 1..26 : UpperLetters[i] = c] ELSE c

toLowerCase(s) == [i \in 1..Len(s) |-> ToLowerChar(s[i])]

\* the element of a set of one element; {e(v) : v \in {x}} computes x once and
\* gives it to e as a value
TheOne(S) == CHOOSE x \in S : TRUE

Min(S) == CHOOSE x \in S : \A y \in S : x <= y

Max(S) == CHOOSE x \in S : \A y \in S : x >= y

\* s has p at (1-based) position i
StartsWithAt(s, i, p) == /\ i >= 1
                         /\ i + Len(p) - 1 <= Len(s)
                         /\ \A k \in 1..Len(p) : s[i + k - 1] = p[k]

startsWith(s, p) == StartsWithAt(s, 1, p)

\* position of the first occurrence of p in s at or after from; 0 when none
IndexOfFrom(s, p, from) == LET hits == {i \in from..(Len(s) - Len(p) + 1) : StartsWithAt(s, i, p)}
                           IN  IF hits = {} THEN 0 ELSE Min(hits)

includes(s, p) == IndexOfFrom(s, p, 1) # 0

\* s.substring(a) for a 1-based first position a
From(s, a) == SubSeq(s, a, Len(s))

\* String.prototype.trim
trim(s) == LET keep == {i \in 1..Len(s) : ~IsSpace(s[i])}
           IN  IF keep = {} THEN <<>> ELSE SubSeq(s, Min(keep), Max(keep))

\* GetSubstitution for a string pattern (no captures): in the replacement $$
\* gives $, $& the matched text, $' the text after the match; any other $ is
\* literal.  (The fourth pattern, $ with a grave accent, is outside the alphabet
\* of the inputs.)
RECURSIVE GetSubstitution(_, _, _, _)
GetSubstitution(rep, k, matched, after) ==
    LET d == IndexOfFrom(rep, <<"$">>, k)
    IN  IF d = 0 THEN From(rep, k)
        ELSE SubSeq(rep, k, d - 1)
             \o (IF d < Len(rep) /\ rep[d + 1] \in {"$", "&", "'"}
                 THEN (CASE rep[d + 1] = "$" -> <<"$">>
                         [] rep[d + 1] = "&" -> matched
                         [] rep[d + 1] = "'" -> after)
                      \o GetSubstitution(rep, d + 2, matched, after)
                 ELSE <<"$">> \o GetSubstitution(rep, d + 1, matched, after))

\* s.replace(pattern, replacement) with a string pattern: first occurrence only
ReplaceFirst(s, pat, rep) ==
    LET i == IndexOfFrom(s, pat, 1)
    IN  IF i = 0 THEN s
        ELSE SubSeq(s, 1, i - 1) \o GetSubstitution(rep, 1, pat, From(s, i + Len(pat)))
             \o From(s, i + Len(pat))

\* s.split(pat).join(rep): every occurrence, left to right, not overlapping
RECURSIVE SplitJoin(_, _, _)
SplitJoin(s, pat, rep) == LET i == IndexOfFrom(s, pat, 1)
                          IN  IF i = 0 THEN s
                              ELSE SubSeq(s, 1, i - 1) \o rep \o SplitJoin(From(s, i + Len(pat)), pat, rep)

\* length of the longest run of characters satisfying a class, starting at i
\* regular-expression character classes, by name
InClass(c, class) ==
    CASE class = "alnum"    -> IsAlnum(c)
      [] class = "notClose" -> c # "}"
      [] class = "hex"      -> IsHexDigit(c)

RECURSIVE RunLen(_, _, _)
RunLen(s, i, class) == IF i <= Len(s) /\ InClass(s[i], class) THEN 1 + RunLen(s, i + 1, class) ELSE 0

\* decimal digits of a natural number (template literal ${index})
RECURSIVE NatToStr(_)
NatToStr(n) == IF n < 10 THEN <<CHOOSE d \in DigitChars : d = <<"0","1","2","3","4","5","6","7","8","9">>[n + 1]>>
               ELSE NatToStr(n \div 10) \o NatToStr(n % 10)

RECURSIVE Flatten(_)
Flatten(ss) ==
    IF ss = <<>> THEN <<>>
    ELSE IF Len(ss) = 1 THEN ss[1]
    ELSE Flatten(SubSeq(ss, 1, Len(ss) \div 2)) \o Flatten(SubSeq(ss, Len(ss) \div 2 + 1, Len(ss)))

SeqToSet(s) == {s[i] : i \in 1..Len(s)}

\* ------------------------------------------------------------------------
\* sanitizer.ts
\* ------------------------------------------------------------------------

ALLOWED_PERSONALIZATION_TOKENS == {<<"f","i","r","s","t","N","a","m","e">>, <<"l","a","s","t","N","a","m","e">>, <<"e","m","a","i","l">>}

\* BLOCK_SANITIZATION_CONFIG[blockType].stripAllHTMLExcept
StripAllHTMLExcept(bt) ==
    CASE bt = "title"         -> <<<<"s","t","r","o","n","g">>, <<"b">>, <<"e","m">>, <<"i">>>>
      [] bt = "paragraph"     -> <<<<"s","t","r","o","n","g">>, <<"b">>, <<"e","m">>, <<"i">>, <<"u">>, <<"a">>, <<"b","r">>>>
      [] bt = "highlight-box" -> <<<<"s","t","r","o","n","g">>, <<"b">>, <<"e","m">>, <<"i">>, <<"u">>, <<"a">>, <<"b","r">>>>
      [] OTHER                -> <<>>

BlockTypes == {"title", "paragraph", "image", "button", "divider", "highlight-box"}

\* GLOBAL_SANITIZATION_CONFIG.tagRestrictions[tag].allowedAttributes
AllowedAttributes(tag) ==
    CASE tag = <<"a">>   -> <<<<"h","r","e","f">>>>
      [] tag = <<"i","m","g">> -> <<<<"s","r","c">>, <<"a","l","t">>, <<"w","i","d","t","h">>, <<"h","e","i","g","h","t">>>>
      [] OTHER          -> <<>>

DANGEROUS_TAGS == <<<<"s","c","r","i","p","t">>, <<"i","f","r","a","m","e">>, <<"o","b","j","e","c","t">>, <<"e","m","b","e","d">>, <<"f","o","r","m">>, <<"i","n","p","u","t">>,
                    <<"b","u","t","t","o","n">>, <<"t","e","x","t","a","r","e","a">>, <<"s","t","y","l","e">>, <<"l","i","n","k">>, <<"m","e","t","a">>, <<"b","a","s","e">>>>

DANGEROUS_ATTRIBUTES == <<<<"o","n","l","o","a","d">>, <<"o","n","e","r","r","o","r">>, <<"o","n","c","l","i","c","k">>, <<"o","n","m","o","u","s","e","o","v","e","r">>, <<"o","n","m","o","u","s","e","o","u","t">>,
                          <<"o","n","m","o","u","s","e","m","o","v","e">>, <<"o","n","m","o","u","s","e","e","n","t","e","r">>, <<"o","n","m","o","u","s","e","l","e","a","v","e">>, <<"o","n","c","h","a","n","g","e">>,
                          <<"o","n","f","o","c","u","s">>, <<"o","n","b","l","u","r">>, <<"o","n","s","u","b","m","i","t">>, <<"o","n","k","e","y","d","o","w","n">>, <<"o","n","k","e","y","u","p">>,
                          <<"o","n","k","e","y","p","r","e","s","s">>, <<"o","n","d","b","l","c","l","i","c","k">>, <<"o","n","d","r","a","g">>, <<"o","n","d","r","o","p">>, <<"o","n","w","h","e","e","l">>,
                          <<"o","n","s","c","r","o","l","l">>, <<"s","t","y","l","e">>, <<"c","l","a","s","s">>, <<"i","d">>>>

\* UNSAFE_CHARS without its '/' entry
UNSAFE_CHARS_WithoutSlash(c) ==
    CASE c = "&"  -> <<"&","a","m","p",";">>
      [] c = "<"  -> <<"&","l","t",";">>
      [] c = ">"  -> <<"&","g","t",";">>
      [] c = "\"" -> <<"&","q","u","o","t",";">>
      [] c = "'"  -> <<"&","#","3","9",";">>
      [] OTHER    -> <<c>>

UNSAFE_CHARS(c) ==
    CASE c = "&"  -> <<"&","a","m","p",";">>
      [] c = "<"  -> <<"&","l","t",";">>
      [] c = ">"  -> <<"&","g","t",";">>
      [] c = "\"" -> <<"&","q","u","o","t",";">>
      [] c = "'"  -> <<"&","#","3","9",";">>
      [] c = "/"  -> <<"&","#","x","2","F",";">>
      [] OTHER    -> <<c>>

escapeHtml(s) == Flatten([i \in 1..Len(s) |-> UNSAFE_CHARS(s[i])])

isValidUrlProtocol(url) ==
    /\ url # <<>>
    /\ LET lowerUrl == trim(toLowerCase(url))
       IN  \E protocol \in {<<"h","t","t","p",":","/","/">>, <<"h","t","t","p","s",":","/","/">>, <<"m","a","i","l","t","o",":">>} : startsWith(lowerUrl, protocol)

PlaceholderPrefix == <<"_","_","P","E","R","S","O","N","A","L","I","Z","A","T","I","O","N","_","T","O","K","E","N","_">>

Placeholder(index) == PlaceholderPrefix \o NatToStr(index) \o <<"_","_">>

\* one match of /\{\{([^}]+)\}\}/ at position i: 0, or the position after the match
TokenMatchEnd(s, i) ==
    IF ~StartsWithAt(s, i, <<"{","{">>) THEN 0
    ELSE LET n == RunLen(s, i + 2, "notClose")
         IN  IF n >= 1 /\ StartsWithAt(s, i + 2 + n, <<"}","}">>) THEN i + 2 + n + 2 ELSE 0

\* text.replace(/\{\{([^}]+)\}\}/g, callback), scanning from position i: the
\* scan goes from one {{ to the next
RECURSIVE ExtractFrom(_, _, _, _, _)
ExtractFrom(s, i, modified, tokens, index) ==
    TheOne({IF d = 0 THEN [text |-> modified \o From(s, i), tokens |-> tokens]
            ELSE TheOne({IF e = 0 THEN ExtractFrom(s, d + 1, modified \o SubSeq(s, i, d), tokens, index)
                         ELSE IF trim(SubSeq(s, d + 2, e - 3)) \in ALLOWED_PERSONALIZATION_TOKENS
                         THEN ExtractFrom(s, e, modified \o SubSeq(s, i, d - 1) \o Placeholder(index),
                                          Append(tokens, <<Placeholder(index), SubSeq(s, d, e - 1)>>),
                                          index + 1)
                         ELSE ExtractFrom(s, e, modified \o SubSeq(s, i, d - 1), tokens, index) :
                         e \in {TokenMatchEnd(s, d)}}) :
            d \in {IndexOfFrom(s, <<"{","{">>, i)}})

extractPersonalizationTokens(s) == ExtractFrom(s, 1, <<>>, <<>>, 0)

\* tokens.forEach in insertion order
RECURSIVE restorePersonalizationTokens(_, _)
restorePersonalizationTokens(s, tokens) ==
    IF tokens = <<>> THEN s
    ELSE restorePersonalizationTokens(SplitJoin(s, Head(tokens)[1], Head(tokens)[2]), Tail(tokens))

\* one match of /<[^>]*>/ removed at a time
RECURSIVE StripTags(_)
StripTags(s) ==
    LET lt == IndexOfFrom(s, <<"<">>, 1)
        gt == IF lt = 0 THEN 0 ELSE IndexOfFrom(s, <<">">>, lt + 1)
    IN  IF gt = 0 THEN s ELSE SubSeq(s, 1, lt - 1) \o StripTags(From(s, gt + 1))

EntityMap(entity) ==
    CASE entity = <<"&","a","m","p",";">>  -> <<"&">>
      [] entity = <<"&","l","t",";">>   -> <<"<">>
      [] entity = <<"&","g","t",";">>   -> <<">">>
      [] entity = <<"&","q","u","o","t",";">> -> <<"\"">>
      [] entity = <<"&","n","b","s","p",";">> -> <<" ">>
      [] OTHER                -> entity

\* replace(/&[a-zA-Z0-9]+;/g, ...), scanning from position i: the scan goes
\* from one & to the next
RECURSIVE DecodeEntities(_, _)
DecodeEntities(s, i) ==
    TheOne({IF a = 0 THEN From(s, i)
            ELSE TheOne({IF n >= 1 /\ StartsWithAt(s, a + 1 + n, <<";">>)
                         THEN SubSeq(s, i, a - 1) \o EntityMap(SubSeq(s, a, a + 1 + n))
                              \o DecodeEntities(s, a + n + 2)
                         ELSE SubSeq(s, i, a) \o DecodeEntities(s, a + 1) :
                         n \in {RunLen(s, a + 1, "alnum")}}) :
            a \in {IndexOfFrom(s, <<"&">>, i)}})

stripAllHtml(s) == TheOne({DecodeEntities(stripped, 1) : stripped \in {StripTags(s)}})

\* one match of /<\/?([a-zA-Z][a-zA-Z0-9]*)\b[^>]*>/ at position i
TagMatchAt(s, i) ==
    LET n0 == IF StartsWithAt(s, i, <<"<","/">>) THEN i + 2 ELSE i + 1
        n  == RunLen(s, n0, "alnum")
        gt == IndexOfFrom(s, <<">">>, n0 + n)
    IN  IF /\ StartsWithAt(s, i, <<"<">>)
           /\ n0 <= Len(s) /\ IsLetter(s[n0])
           /\ n0 + n <= Len(s) /\ ~IsWordChar(s[n0 + n])
           /\ gt # 0
        THEN [index |-> i, end |-> gt, fullTag |-> SubSeq(s, i, gt),
              tagName |-> toLowerCase(SubSeq(s, n0, n0 + n - 1))]
        ELSE [index |-> 0]

\* the next match at or after from ([index |-> 0] when there is none)
NextTagMatch(s, from) ==
    LET hits == {i \in from..Len(s) : TagMatchAt(s, i).index # 0}
    IN  IF hits = {} THEN [index |-> 0] ELSE TagMatchAt(s, Min(hits))

\* the for-loop over html.matchAll(tagRegex), from lastIndex with result so far
RECURSIVE SanitizeLoop(_, _, _, _)
SanitizeLoop(html, lastIndex, res, allowed) ==
    LET match == NextTagMatch(html, lastIndex)
    IN  IF match.index = 0 THEN res \o escapeHtml(From(html, lastIndex))
        ELSE LET withText == res \o escapeHtml(SubSeq(html, lastIndex, match.index - 1))
             IN  IF match.tagName \in SeqToSet(DANGEROUS_TAGS)
                 THEN SanitizeLoop(html, match.end + 1, withText, allowed)
                 ELSE IF match.tagName \notin {toLowerCase(t) : t \in SeqToSet(allowed)}
                 THEN SanitizeLoop(html, match.end + 1, withText, allowed)
                 ELSE SanitizeLoop(html, match.end + 1, withText \o match.fullTag, allowed)

sanitizeHtml(html, allowed) == IF html = <<>> THEN <<>> ELSE SanitizeLoop(html, 1, <<>>, allowed)

\* the value of `sanitized` in sanitizeTextContent, before the tokens are restored
SanitizedWithPlaceholders(s, bt) ==
    LET ex == extractPersonalizationTokens(s)
    IN  IF Len(StripAllHTMLExcept(bt)) = 0
        THEN escapeHtml(stripAllHtml(ex.text))
        ELSE sanitizeHtml(ex.text, StripAllHTMLExcept(bt))

sanitizeTextContent(s, bt) ==
    IF s = <<>> THEN <<>>
    ELSE restorePersonalizationTokens(SanitizedWithPlaceholders(s, bt),
                                      extractPersonalizationTokens(s).tokens)

\* WHATWG URL parsing as far as `new URL(url).protocol` needs it: the scheme
\* (lower-cased) of a string that parses, <<>> for one that throws.  Leading and
\* trailing spaces are stripped; a special scheme needs a non-empty host free
\* of forbidden host code points; any other scheme takes an opaque path.
SpecialSchemes == {<<"h","t","t","p">>, <<"h","t","t","p","s">>, <<"f","t","p">>, <<"w","s">>, <<"w","s","s">>}

IsSchemeChar(c) == IsAlnum(c) \/ c \in {"+", "-", "."}

IsSlash(c) == c \in {"/", "\\"}

ForbiddenHostChars == {" ", "<", ">", "^", "|", "[", "]", "%", "\"", "{", "}"}

UrlProtocol(url) ==
    LET u      == trim(url)
        colon  == IndexOfFrom(u, <<":">>, 1)
        scheme == IF colon = 0 THEN <<>> ELSE toLowerCase(SubSeq(u, 1, colon - 1))
        rest   == IF colon = 0 THEN <<>> ELSE From(u, colon + 1)
        hostAt == IF \E i \in 1..Len(rest) : ~IsSlash(rest[i])
                  THEN Min({i \in 1..Len(rest) : ~IsSlash(rest[i])}) ELSE Len(rest) + 1
        stops  == {i \in hostAt..Len(rest) : rest[i] \in {"/", "\\", "?", "#"}}
        host   == SubSeq(rest, hostAt, IF stops = {} THEN Len(rest) ELSE Min(stops) - 1)
    IN  IF \/ colon <= 1
           \/ ~IsLetter(u[1])
           \/ \E i \in 1..(colon - 1) : ~IsSchemeChar(u[i])
        THEN <<>>
        ELSE IF scheme \in SpecialSchemes /\ (host = <<>> \/ \E i \in 1..Len(host) : host[i] \in ForbiddenHostChars)
        THEN <<>>
        ELSE scheme

isValidUrl(url, requireHttps) ==
    IF url = <<>> THEN FALSE
    ELSE LET protocol == UrlProtocol(url)
         IN  IF protocol = <<>> THEN FALSE
             ELSE IF requireHttps THEN protocol = <<"h","t","t","p","s">>
             ELSE protocol \in {<<"h","t","t","p">>, <<"h","t","t","p","s">>, <<"m","a","i","l","t","o">>}

sanitizeButtonLabel(label) == IF label = <<>> THEN <<>> ELSE escapeHtml(trim(stripAllHtml(label)))

sanitizeImageAlt(alt) == IF alt = <<>> THEN <<>> ELSE escapeHtml(trim(stripAllHtml(alt)))

Has(b, field) == field \in DOMAIN b

\* sanitizeBlock throws (button href / image src that fails isValidUrl)
sanitizeBlockThrows(b) ==
    \/ b.type = "button" /\ Has(b, "href") /\ ~isValidUrl(b.href, FALSE)
    \/ b.type = "image" /\ Has(b, "src") /\ ~isValidUrl(b.src, TRUE)

\* the copy sanitizeBlock returns when it does not throw
sanitizeBlock(b) ==
    CASE b.type \in {"title", "paragraph", "highlight-box"} ->
            IF Has(b, "content") THEN [b EXCEPT !.content = sanitizeTextContent(b.content, b.type)] ELSE b
      [] b.type = "button" ->
            IF Has(b, "label") THEN [b EXCEPT !.label = sanitizeButtonLabel(b.label)] ELSE b
      [] b.type = "image" ->
            IF Has(b, "alt") THEN [b EXCEPT !.alt = sanitizeImageAlt(b.alt)] ELSE b
      [] OTHER -> b

\* ------------------------------------------------------------------------
\* renderer/parseInlineFormatting.ts
\* ------------------------------------------------------------------------

\* spec.split('|')
RECURSIVE Split(_, _)
Split(s, sep) == LET i == IndexOfFrom(s, <<sep>>, 1)
                 IN  IF i = 0 THEN <<s>> ELSE <<SubSeq(s, 1, i - 1)>> \o Split(From(s, i + 1), sep)

\* parts.join(sep)
RECURSIVE Join(_, _)
Join(parts, sep) == IF parts = <<>> THEN <<>>
                    ELSE IF Len(parts) = 1 THEN parts[1]
                    ELSE parts[1] \o sep \o Join(Tail(parts), sep)

\* /^#([0-9A-Fa-f]{3}|[0-9A-Fa-f]{6})$/.test(s)
IsHexColor(s) == /\ Len(s) \in {4, 7}
                 /\ s[1] = "#"
                 /\ \A i \in 2..Len(s) : IsHexDigit(s[i])

\* the parser's own URL check (not the sanitizer's)
linkIsValidUrl(url) ==
    IF url = <<>> THEN FALSE
    ELSE IF startsWith(url, <<"h","t","t","p","s",":","/","/">>) THEN TRUE
    ELSE IF startsWith(url, <<"h","t","t","p",":","/","/">>) THEN TRUE
    ELSE IF startsWith(url, <<"m","a","i","l","t","o",":">>) THEN TRUE
    ELSE IF startsWith(url, <<"h","t","t","p","s",":","/","/","w","a",".","m","e","/">>) THEN TRUE
    ELSE FALSE

NoColor == <<"null">>

\* the loop of parseLinkModifiers over parts[1..], with the values so far
RECURSIVE LinkModifierLoop(_, _, _, _)
LinkModifierLoop(parts, i, hasBold, color) ==
    IF i > Len(parts) THEN [hasBold |-> hasBold, color |-> color]
    ELSE LET part == parts[i]
         IN  IF part = <<"b","o","l","d">> THEN LinkModifierLoop(parts, i + 1, TRUE, color)
             ELSE IF startsWith(part, <<"c","o","l","o","r",":">>) /\ IsHexColor(From(part, 7))
                  THEN LinkModifierLoop(parts, i + 1, hasBold, From(part, 7))
             ELSE LinkModifierLoop(parts, i + 1, hasBold, color)

parseLinkModifiers(spec) ==
    LET split == Split(spec, "|")
        parts == [i \in 1..Len(split) |-> trim(split[i])]
        m     == LinkModifierLoop(parts, 2, FALSE, NoColor)
    IN  [url |-> parts[1], hasBold |-> m.hasBold, color |-> m.color]

NoWeight == "null"

RECURSIVE StyleModifierLoop(_, _, _, _, _)
StyleModifierLoop(parts, i, weight, color, hasOption) ==
    IF i > Len(parts) THEN [weight |-> weight, color |-> color, isValid |-> hasOption]
    ELSE LET part == parts[i]
         IN  IF part \in {<<"n","o","r","m","a","l">>, <<"s","e","m","i","b","o","l","d">>, <<"b","o","l","d">>}
             THEN StyleModifierLoop(parts, i + 1,
                                    IF part = <<"n","o","r","m","a","l">> THEN "normal"
                                    ELSE IF part = <<"s","e","m","i","b","o","l","d">> THEN "semibold" ELSE "bold",
                                    color, TRUE)
             ELSE IF startsWith(part, <<"c","o","l","o","r",":">>) /\ IsHexColor(From(part, 7))
                  THEN StyleModifierLoop(parts, i + 1, weight, From(part, 7), TRUE)
             ELSE StyleModifierLoop(parts, i + 1, weight, color, hasOption)

parseStyleModifiers(spec) ==
    LET split == Split(spec, "|")
        parts == [i \in 1..Len(split) |-> trim(split[i])]
    IN  StyleModifierLoop(parts, 1, NoWeight, NoColor, FALSE)

\* (.*?) followed by the closing marker: the content ends at the first closing
\* marker, and the dot matches no line terminator
LazyContentEnd(s, from, close) ==
    LET c == IndexOfFrom(s, close, from)
    IN  IF c # 0 /\ \A k \in from..(c - 1) : s[k] # "\n" THEN c ELSE 0

\* one match of /\{\{bold:(#[0-9A-Fa-f]{3}|#[0-9A-Fa-f]{6})\}\}(.*?)\{\{\/bold\}\}/ at i
BoldMatchAt(s, i) ==
    LET open == <<"{","{","b","o","l","d",":">>
        c0   == i + Len(open)
        n    == IF StartsWithAt(s, c0, <<"#">>) THEN RunLen(s, c0 + 1, "hex") ELSE 0
        clen == IF n >= 3 /\ StartsWithAt(s, c0 + 4, <<"}","}">>) THEN 4
                ELSE IF n >= 6 /\ StartsWithAt(s, c0 + 7, <<"}","}">>) THEN 7 ELSE 0
        body == c0 + clen + 2
        c    == IF clen = 0 THEN 0 ELSE LazyContentEnd(s, body, <<"{","{","/","b","o","l","d","}","}">>)
    IN  IF StartsWithAt(s, i, open) /\ clen # 0 /\ c # 0
        THEN [index |-> i, end |-> c + 8, spec |-> SubSeq(s, c0, c0 + clen - 1),
              content |-> SubSeq(s, body, c - 1), fullToken |-> SubSeq(s, i, c + 8)]
        ELSE [index |-> 0]

\* one match of /\{\{kind:([^}]+)\}\}(.*?)\{\{\/kind\}\}/ at i, for kind style or link
SpecTokenMatchAt(s, i, kind) ==
    LET open  == <<"{","{">> \o kind \o <<":">>
        close == <<"{","{","/">> \o kind \o <<"}","}">>
        c0    == i + Len(open)
        n     == RunLen(s, c0, "notClose")
        body  == c0 + n + 2
        c     == IF n >= 1 /\ StartsWithAt(s, c0 + n, <<"}","}">>) THEN LazyContentEnd(s, body, close) ELSE 0
    IN  IF StartsWithAt(s, i, open) /\ c # 0
        THEN [index |-> i, end |-> c + Len(close) - 1, spec |-> SubSeq(s, c0, c0 + n - 1),
              content |-> SubSeq(s, body, c - 1), fullToken |-> SubSeq(s, i, c + Len(close) - 1)]
        ELSE [index |-> 0]

TokenMatchAt(s, i, kind) == IF kind = <<"b","o","l","d">> THEN BoldMatchAt(s, i) ELSE SpecTokenMatchAt(s, i, kind)

\* regex.exec(s) of a global regular expression whose lastIndex is from - 1
Exec(s, from, kind) ==
    LET hits == {i \in from..Len(s) : TokenMatchAt(s, i, kind).index # 0}
    IN  IF hits = {} THEN [index |-> 0] ELSE TokenMatchAt(s, Min(hits), kind)

BoldReplacement(m) ==
    <<"<","s","p","a","n"," ","s","t","y","l","e","=","\"","c","o","l","o","r",":">> \o m.spec \o <<";","f","o","n","t","-","w","e","i","g","h","t",":","7","0","0",";","\"",">">> \o m.content \o <<"<","/","s","p","a","n",">">>

\* Step 1: boldRegex.exec scans the original text, result is rewritten
RECURSIVE BoldLoop(_, _, _)
BoldLoop(original, from, res) ==
    TheOne({IF m.index = 0 THEN res
            ELSE BoldLoop(original, m.end + 1, ReplaceFirst(res, m.fullToken, BoldReplacement(m))) :
            m \in {Exec(original, from, <<"b","o","l","d">>)}})

StyleStyles_WeightFirst(mod) ==
    (IF mod.weight = "bold" THEN <<<<"f","o","n","t","-","w","e","i","g","h","t",":","7","0","0">>>>
     ELSE IF mod.weight = "semibold" THEN <<<<"f","o","n","t","-","w","e","i","g","h","t",":","6","0","0">>>>
     ELSE IF mod.weight = "normal" THEN <<<<"f","o","n","t","-","w","e","i","g","h","t",":","4","0","0">>>>
     ELSE <<>>)
    \o (IF mod.color # NoColor THEN <<<<"c","o","l","o","r",":">> \o mod.color>> ELSE <<>>)

StyleStyles(mod) ==
    (IF mod.color # NoColor THEN <<<<"c","o","l","o","r",":">> \o mod.color>> ELSE <<>>)
    \o (IF mod.weight = "bold" THEN <<<<"f","o","n","t","-","w","e","i","g","h","t",":","7","0","0">>>>
        ELSE IF mod.weight = "semibold" THEN <<<<"f","o","n","t","-","w","e","i","g","h","t",":","6","0","0">>>>
        ELSE IF mod.weight = "normal" THEN <<<<"f","o","n","t","-","w","e","i","g","h","t",":","4","0","0">>>>
        ELSE <<>>)

StyleReplacement(m) ==
    LET mod == parseStyleModifiers(m.spec)
    IN  IF ~mod.isValid THEN m.content
        ELSE <<"<","s","p","a","n"," ","s","t","y","l","e","=","\"">> \o Join(StyleStyles(mod), <<";">>) \o <<";","\"",">">> \o m.content \o <<"<","/","s","p","a","n",">">>

\* number of replacements after which a scan-and-replace loop that still finds
\* a match is taken never to end
MaxIterations == 6

\* the value of a call that does not return
NoReturn == <<"no return">>

\* Step 2: styleRegex.exec scans result while result is rewritten; lastIndex
\* stays where the match ended in the string before the rewrite
RECURSIVE StyleLoop(_, _, _)
StyleLoop(res, from, n) ==
    TheOne({IF m.index = 0 THEN res
            ELSE IF n = MaxIterations THEN NoReturn
            ELSE StyleLoop(ReplaceFirst(res, m.fullToken, StyleReplacement(m)), m.end + 1, n + 1) :
            m \in {Exec(res, from, <<"s","t","y","l","e">>)}})

LinkStyles_AlwaysSemibold(mod) ==
    <<<<"c","o","l","o","r",":">> \o (IF mod.color # NoColor THEN mod.color ELSE <<"#","0","0","8","8","6","7">>),
      <<"t","e","x","t","-","d","e","c","o","r","a","t","i","o","n",":","n","o","n","e">>,
      <<"f","o","n","t","-","w","e","i","g","h","t",":","6","0","0">>>>

LinkStyles(mod) ==
    <<<<"c","o","l","o","r",":">> \o (IF mod.color # NoColor THEN mod.color ELSE <<"#","0","0","8","8","6","7">>),
      <<"t","e","x","t","-","d","e","c","o","r","a","t","i","o","n",":","n","o","n","e">>,
      IF mod.hasBold THEN <<"f","o","n","t","-","w","e","i","g","h","t",":","7","0","0">> ELSE <<"f","o","n","t","-","w","e","i","g","h","t",":","6","0","0">>>>

LinkReplacement(m) ==
    LET mod == parseLinkModifiers(m.spec)
    IN  IF ~linkIsValidUrl(mod.url) THEN m.content
        ELSE <<"<","a"," ","h","r","e","f","=","\"">> \o mod.url \o <<"\""," ","s","t","y","l","e","=","\"">> \o Join(LinkStyles(mod), <<";">>)
             \o <<";","\""," ","t","a","r","g","e","t","=","\"","_","b","l","a","n","k","\""," ","r","e","l","=","\"","n","o","o","p","e","n","e","r"," ","n","o","r","e","f","e","r","r","e","r","\"",">">> \o m.content \o <<"<","/","a",">">>

\* Step 3: combinedLinkRegex.exec scans result while result is rewritten
RECURSIVE LinkLoop(_, _, _)
LinkLoop(res, from, n) ==
    TheOne({IF m.index = 0 THEN res
            ELSE IF n = MaxIterations THEN NoReturn
            ELSE LinkLoop(ReplaceFirst(res, m.fullToken, LinkReplacement(m)), m.end + 1, n + 1) :
            m \in {Exec(res, from, <<"l","i","n","k">>)}})

\* the matches of a token regex in a string that is not being rewritten
RECURSIVE StaticMatches(_, _, _)
StaticMatches(s, from, kind) == LET m == Exec(s, from, kind)
                                IN  IF m.index = 0 THEN <<>> ELSE <<m>> \o StaticMatches(s, m.end + 1, kind)

\* the link scan starting where the bold scan ended
parseInlineFormatting_SharedLastIndex(s) ==
    TheOne({IF styled = NoReturn THEN NoReturn
            ELSE LinkLoop(styled, IF bolds = <<>> THEN 1 ELSE bolds[Len(bolds)].end + 1, 0) :
            styled \in {StyleLoop(BoldLoop(s, 1, s), 1, 0)}, bolds \in {StaticMatches(s, 1, <<"b","o","l","d">>)}})

parseInlineFormatting(s) ==
    TheOne({IF styled = NoReturn THEN NoReturn ELSE LinkLoop(styled, 1, 0) :
            styled \in {StyleLoop(BoldLoop(s, 1, s), 1, 0)}})

NoBlock == [type |-> "none"]

\* a fixed section that the document does not have
NoSection == [section |-> "none"]

\* ------------------------------------------------------------------------
\* template-config.ts
\* ------------------------------------------------------------------------

Constraint(t, min, max, required) == [blockType |-> t, min |-> min, max |-> max, required |-> required]

AllBlockTypes == <<"title", "paragraph", "image", "button", "divider", "highlight-box">>

OPEN_FUND_CONFIG ==
    [templateType |-> "open-fund",
     allowedBlockTypes |-> AllBlockTypes,
     blockConstraints |-> <<Constraint("title", 1, 2, TRUE), Constraint("paragraph", 2, 5, TRUE),
                            Constraint("image", 0, 3, FALSE), Constraint("button", 1, 2, TRUE),
                            Constraint("divider", 0, 2, FALSE), Constraint("highlight-box", 0, 1, FALSE)>>,
     maxTotalBlocks |-> 15,
     allowReordering |-> TRUE,
     requireBlockOrder |-> <<"title", "paragraph", "image", "paragraph", "button", "highlight-box">>,
     mandatoryBlocks |-> <<"title", "paragraph", "button">>,
     helpSectionRequired |-> TRUE,
     complianceSectionRequired |-> TRUE]

CLOSE_FUND_CONFIG ==
    [templateType |-> "close-fund",
     allowedBlockTypes |-> AllBlockTypes,
     blockConstraints |-> <<Constraint("title", 0, 1, FALSE), Constraint("paragraph", 2, 4, TRUE),
                            Constraint("image", 0, 2, FALSE), Constraint("button", 0, 1, FALSE),
                            Constraint("divider", 0, 1, FALSE), Constraint("highlight-box", 0, 1, FALSE)>>,
     maxTotalBlocks |-> 12,
     allowReordering |-> TRUE,
     requireBlockOrder |-> <<"paragraph", "divider", "paragraph", "highlight-box">>,
     mandatoryBlocks |-> <<"paragraph">>,
     helpSectionRequired |-> TRUE,
     complianceSectionRequired |-> TRUE]

NEWSLETTER_CONFIG ==
    [templateType |-> "newsletter",
     allowedBlockTypes |-> AllBlockTypes,
     blockConstraints |-> <<Constraint("title", 1, 2, TRUE), Constraint("paragraph", 3, 8, TRUE),
                            Constraint("image", 1, 4, TRUE), Constraint("button", 0, 2, FALSE),
                            Constraint("divider", 0, 3, FALSE), Constraint("highlight-box", 0, 2, FALSE)>>,
     maxTotalBlocks |-> 20,
     allowReordering |-> TRUE,
     requireBlockOrder |-> <<"title", "image", "paragraph", "divider", "paragraph", "button">>,
     mandatoryBlocks |-> <<"title", "paragraph", "image">>,
     helpSectionRequired |-> TRUE,
     complianceSectionRequired |-> TRUE]

TemplateTypes == {"open-fund", "close-fund", "newsletter"}

getTemplateConfig(t) ==
    CASE t = "open-fund"  -> OPEN_FUND_CONFIG
      [] t = "close-fund" -> CLOSE_FUND_CONFIG
      [] t = "newsletter" -> NEWSLETTER_CONFIG

\* ------------------------------------------------------------------------
\* validator.ts  (a ValidationError without its message text)
\* ------------------------------------------------------------------------

NoId == <<>>

Error(code, severity, blockId, bType) ==
    [code |-> code, severity |-> severity, blockId |-> blockId, blockType |-> bType]

\* blocks.forEach(block => errors.push(...)) for a per-block list of errors
PerBlock(blocks, ErrorsOf(_)) == Flatten([i \in 1..Len(blocks) |-> ErrorsOf(blocks[i])])

CountType(blocks, t) == Cardinality({i \in 1..Len(blocks) : blocks[i].type = t})

blockTypeAllowedRule(ctx) ==
    LET ErrorsOf(b) == IF b.type \notin SeqToSet(ctx.templateConfig.allowedBlockTypes)
                       THEN <<Error("BLOCK_TYPE_NOT_ALLOWED", "error", b.id, b.type)>> ELSE <<>>
    IN  PerBlock(ctx.email.body.blocks, ErrorsOf)

blockCountConstraintRule(ctx) ==
    LET cs == ctx.templateConfig.blockConstraints
        ErrorsOf(c) ==
            LET count == CountType(ctx.email.body.blocks, c.blockType)
            IN  (IF count < c.min
                 THEN <<Error("MIN_BLOCKS_NOT_MET", IF c.required THEN "error" ELSE "warning", NoId, c.blockType)>>
                 ELSE <<>>)
                \o (IF count > c.max THEN <<Error("MAX_BLOCKS_EXCEEDED", "error", NoId, c.blockType)>> ELSE <<>>)
    IN  Flatten([i \in 1..Len(cs) |-> ErrorsOf(cs[i])])

totalBlockCountRule(ctx) ==
    IF Len(ctx.email.body.blocks) > ctx.templateConfig.maxTotalBlocks
    THEN <<Error("MAX_TOTAL_BLOCKS_EXCEEDED", "error", NoId, "")>> ELSE <<>>

mandatoryBlocksRule(ctx) ==
    LET ms == ctx.templateConfig.mandatoryBlocks
        present == {ctx.email.body.blocks[i].type : i \in 1..Len(ctx.email.body.blocks)}
    IN  Flatten([i \in 1..Len(ms) |->
                    IF ms[i] \notin present THEN <<Error("MANDATORY_BLOCK_MISSING", "error", NoId, ms[i])>> ELSE <<>>])

\* the loop of blockOrderRule from block i on, with lastOrderIndex (0-based, -1 at first)
RECURSIVE BlockOrderLoop(_, _, _, _, _)
BlockOrderLoop(blocks, i, lastOrderIndex, requireOrder, strict) ==
    IF i > Len(blocks) THEN <<>>
    ELSE LET b == blocks[i]
             hits == {k \in 1..Len(requireOrder) : requireOrder[k] = "any" \/ requireOrder[k] = b.type}
             blockOrderIndex == IF hits = {} THEN -1 ELSE Min(hits) - 1
         IN  (IF blockOrderIndex < lastOrderIndex
              THEN <<Error("BLOCK_ORDER_VIOLATION", IF strict THEN "error" ELSE "warning", b.id, b.type)>>
              ELSE <<>>)
             \o BlockOrderLoop(blocks, i + 1,
                               IF blockOrderIndex >= 0 THEN blockOrderIndex ELSE lastOrderIndex,
                               requireOrder, strict)

blockOrderRule(ctx) ==
    IF ctx.templateConfig.allowReordering \/ Len(ctx.templateConfig.requireBlockOrder) = 0
    THEN <<>>
    ELSE BlockOrderLoop(ctx.email.body.blocks, 1, -1, ctx.templateConfig.requireBlockOrder, ctx.strict)

fixedSectionsRule(ctx) ==
    (IF ctx.templateConfig.helpSectionRequired /\ ~ctx.email.helpSection
     THEN <<Error("HELP_SECTION_MISSING", "error", NoId, "")>> ELSE <<>>)
    \o (IF ctx.templateConfig.complianceSectionRequired /\ ctx.email.complianceSection = NoSection
        THEN <<Error("COMPLIANCE_SECTION_MISSING", "error", NoId, "")>> ELSE <<>>)

blockIdUniquenessRule(ctx) ==
    LET blocks == ctx.email.body.blocks
    IN  Flatten([i \in 1..Len(blocks) |->
                    IF \E j \in 1..(i - 1) : blocks[j].id = blocks[i].id
                    THEN <<Error("DUPLICATE_BLOCK_ID", "error", blocks[i].id, "")>> ELSE <<>>])

\* !value || value.trim().length === 0
Blank(b, field) == ~Has(b, field) \/ trim(b[field]) = <<>>

blockContentValidationRule(ctx) ==
    LET ErrorsOf(b) ==
            CASE b.type = "title" ->
                    IF Blank(b, "content") THEN <<Error("EMPTY_TITLE", "error", b.id, "title")>> ELSE <<>>
              [] b.type = "paragraph" ->
                    IF Blank(b, "content") THEN <<Error("EMPTY_PARAGRAPH", "error", b.id, "paragraph")>> ELSE <<>>
              [] b.type = "image" ->
                    (IF Blank(b, "src") THEN <<Error("MISSING_IMAGE_SRC", "error", b.id, "image")>>
                     ELSE IF ~startsWith(b.src, <<"h","t","t","p","s",":","/","/">>)
                          THEN <<Error("INVALID_IMAGE_PROTOCOL", "error", b.id, "image")>> ELSE <<>>)
                    \o (IF Blank(b, "alt") THEN <<Error("MISSING_IMAGE_ALT", "error", b.id, "image")>> ELSE <<>>)
              [] b.type = "button" ->
                    (IF Blank(b, "label") THEN <<Error("EMPTY_BUTTON_LABEL", "error", b.id, "button")>> ELSE <<>>)
                    \o (IF Blank(b, "href") THEN <<Error("MISSING_BUTTON_HREF", "error", b.id, "button")>>
                        ELSE IF ~startsWith(b.href, <<"h","t","t","p","s",":","/","/">>) /\ ~startsWith(b.href, <<"h","t","t","p",":","/","/">>)
                             THEN <<Error("INVALID_BUTTON_PROTOCOL", "error", b.id, "button")>> ELSE <<>>)
              [] b.type = "highlight-box" ->
                    (IF Blank(b, "content") THEN <<Error("EMPTY_HIGHLIGHT_BOX", "error", b.id, "highlight-box")>>
                     ELSE <<>>)
                    \o (IF ~Has(b, "backgroundColor") \/ b.backgroundColor = <<>>
                        THEN <<Error("MISSING_HIGHLIGHT_COLOR", "warning", b.id, "highlight-box")>> ELSE <<>>)
              [] OTHER -> <<>>
    IN  PerBlock(ctx.email.body.blocks, ErrorsOf)

BadColor(b, field) == Has(b, field) /\ b[field] # <<>> /\ ~IsHexColor(b[field])

colorFormatRule(ctx) ==
    LET ErrorsOf(b) ==
            (IF BadColor(b, "color") THEN <<Error("INVALID_COLOR_FORMAT", "error", b.id, b.type)>> ELSE <<>>)
            \o (IF BadColor(b, "backgroundColor") THEN <<Error("INVALID_COLOR_FORMAT", "error", b.id, b.type)>> ELSE <<>>)
            \o (IF BadColor(b, "borderColor") THEN <<Error("INVALID_COLOR_FORMAT", "error", b.id, b.type)>> ELSE <<>>)
    IN  PerBlock(ctx.email.body.blocks, ErrorsOf)

\* VALIDATION_RULES.flatMap(rule => rule.validate(context))
VALIDATION_RULES(ctx) ==
    blockTypeAllowedRule(ctx) \o blockCountConstraintRule(ctx) \o totalBlockCountRule(ctx)
    \o mandatoryBlocksRule(ctx) \o blockIdUniquenessRule(ctx) \o blockContentValidationRule(ctx)
    \o colorFormatRule(ctx) \o blockOrderRule(ctx) \o fixedSectionsRule(ctx)

IsError(e) == e.severity = "error"

IsWarning(e) == e.severity = "warning"

validateEmailDocument(doc, strict) ==
    LET allErrors == VALIDATION_RULES([templateConfig |-> getTemplateConfig(doc.templateType),
                                       email |-> doc, strict |-> strict])
    IN  IF ~strict THEN SelectSeq(allErrors, IsError) ELSE allErrors

isEmailDocumentValid(doc, strict) == Len(validateEmailDocument(doc, strict)) = 0

getValidationSummary(doc, strict) ==
    LET allErrors == validateEmailDocument(doc, TRUE)
        errors    == SelectSeq(allErrors, IsError)
        warnings  == SelectSeq(allErrors, IsWarning)
    IN  [isValid |-> Len(errors) = 0,
         errorCount |-> Len(errors),
         warningCount |-> IF strict THEN Len(warnings) ELSE 0,
         errors |-> errors,
         warnings |-> warnings]

\* ------------------------------------------------------------------------
\* index.ts: createEmail  (id, version and dates of the document left out)
\* ------------------------------------------------------------------------

NoEmail == [templateType |-> "none"]

\* blocks.map(block => { try { return sanitizeBlock(block) } catch { return block } })
SanitizedBlocks(blocks) ==
    [i \in 1..Len(blocks) |-> IF sanitizeBlockThrows(blocks[i]) THEN blocks[i] ELSE sanitizeBlock(blocks[i])]

\* the document is built from the sanitized blocks, then validated; the set
\* binds the built document as a value
createEmail(t, blocks) ==
    LET Validated(created) ==
            LET summary == getValidationSummary(created, FALSE)
            IN  [created EXCEPT !.isValid = summary.isValid, !.validationErrors = summary.errors]
    IN  CHOOSE document \in
            {Validated(created) : created \in {[templateType |-> t,
                                                 blocks |-> SanitizedBlocks(blocks),
                                                 body |-> [blocks |-> SanitizedBlocks(blocks)],
                                                 helpSection |-> TRUE,
                                                 complianceSection |-> [text |-> <<"P","T"," ","D","a","n","a"," ","K","r","i","p","t","o"," ","I","n","d","o","n","e","s","i","a"," ","s","e","b","a","g","a","i"," ","p","e","s","e","r","t","a"," ","s","a","n","d","b","o","x"," ","O","J","K">>,
                                                                       sandboxNumber |-> <<"S","-","1","9","6","/","I","K",".","0","1","/","2","0","2","5">>],
                                                 isValid |-> FALSE,
                                                 validationErrors |-> <<>>]}} : TRUE

\* ------------------------------------------------------------------------
\* BlockForm.tsx  (lineHeight in tenths)
\* ------------------------------------------------------------------------

\* getInitialState() without a block
InitialState ==
    [type |-> "paragraph", content |-> <<>>, href |-> <<>>, src |-> <<>>, alt |-> <<>>, label |-> <<>>,
     level |-> "h1", color |-> <<"#","1","a","1","a","1","a">>, backgroundColor |-> <<"#","f","8","f","4","e","6">>, lineHeight |-> 16,
     paddingBottom |-> 16, textAlign |-> "left", width |-> 100, imageHeight |-> "undefined",
     maxWidth |-> 600, borderRadius |-> 0, padding |-> <<"1","0","p","x"," ","1","6","p","x">>, marginTop |-> 12,
     align |-> "left", borderColor |-> <<"t","r","a","n","s","p","a","r","e","n","t">>, borderLeft |-> FALSE,
     textColor |-> <<"#","f","f","f","f","f","f">>, dividerHeight |-> 1, dividerMargin |-> 16]

Field(b, field, default) == IF Has(b, field) THEN b[field] ELSE default

getInitialState(b) ==
    IF b = NoBlock THEN InitialState
    ELSE [type |-> b.type,
          content |-> Field(b, "content", <<>>), href |-> Field(b, "href", <<>>),
          src |-> Field(b, "src", <<>>), alt |-> Field(b, "alt", <<>>), label |-> Field(b, "label", <<>>),
          level |-> Field(b, "level", "h1"), color |-> Field(b, "color", <<"#","1","a","1","a","1","a">>),
          backgroundColor |-> Field(b, "backgroundColor", <<"#","f","8","f","4","e","6">>),
          lineHeight |-> Field(b, "lineHeight", 16), paddingBottom |-> Field(b, "paddingBottom", 16),
          textAlign |-> Field(b, "textAlign", "left"), width |-> Field(b, "width", 100),
          imageHeight |-> IF Has(b, "height") /\ b.type = "image" THEN b.height ELSE "undefined",
          maxWidth |-> Field(b, "maxWidth", 600), borderRadius |-> Field(b, "borderRadius", 0),
          padding |-> Field(b, "padding", <<"1","0","p","x"," ","1","6","p","x">>), marginTop |-> Field(b, "marginTop", 12),
          align |-> Field(b, "align", "left"), borderColor |-> Field(b, "borderColor", <<"t","r","a","n","s","p","a","r","e","n","t">>),
          borderLeft |-> Field(b, "borderLeft", FALSE), textColor |-> Field(b, "textColor", <<"#","f","f","f","f","f","f">>),
          dividerHeight |-> IF Has(b, "height") /\ b.type = "divider" THEN b.height ELSE 1,
          dividerMargin |-> IF Has(b, "margin") /\ b.type = "divider" THEN b.margin ELSE 16]

validateBlock(st) ==
    CASE st.type \in {"title", "paragraph", "highlight-box"} -> Len(trim(st.content)) > 0
      [] st.type = "button"  -> Len(trim(st.label)) > 0 /\ Len(trim(st.href)) > 0
      [] st.type = "image"   -> Len(trim(st.src)) > 0 /\ Len(trim(st.alt)) > 0
      [] st.type = "divider" -> TRUE
      [] OTHER               -> FALSE

createBlockUpdates(st) ==
    CASE st.type = "title" ->
            [level |-> st.level, content |-> st.content, color |-> st.color, paddingBottom |-> st.paddingBottom]
      [] st.type = "paragraph" ->
            [content |-> st.content, color |-> st.color, lineHeight |-> st.lineHeight,
             paddingBottom |-> st.paddingBottom, textAlign |-> st.textAlign]
      [] st.type = "image" ->
            [src |-> st.src, alt |-> st.alt, width |-> st.width, height |-> st.imageHeight,
             maxWidth |-> st.maxWidth, borderRadius |-> st.borderRadius, paddingBottom |-> st.paddingBottom]
      [] st.type = "button" ->
            [label |-> st.label, href |-> st.href, backgroundColor |-> st.backgroundColor,
             textColor |-> st.textColor, padding |-> st.padding, borderRadius |-> st.borderRadius,
             marginTop |-> st.marginTop, paddingBottom |-> st.paddingBottom, align |-> st.align]
      [] st.type = "divider" ->
            [color |-> st.color, height |-> st.dividerHeight, margin |-> st.dividerMargin]
      [] st.type = "highlight-box" ->
            [content |-> st.content, backgroundColor |-> st.backgroundColor, borderColor |-> st.borderColor,
             padding |-> st.padding, borderRadius |-> st.borderRadius, paddingBottom |-> st.paddingBottom,
             borderLeft |-> st.borderLeft]

\* { ...b, ...updates }
Spread(b, updates) ==
    [f \in DOMAIN b \cup DOMAIN updates |-> IF f \in DOMAIN updates THEN updates[f] ELSE b[f]]

BlockId(time) == <<"b","l","o","c","k","-">> \o NatToStr(time)

createNewBlock(st, time) == Spread([type |-> st.type, id |-> BlockId(time)], createBlockUpdates(st))

\* ------------------------------------------------------------------------
\* renderEmail: what the block renderers hand to parseInlineFormatting
\* ------------------------------------------------------------------------

\* the block types whose renderer parses block.content
ParsedTypes == {"title", "paragraph"}

\* per body block, the argument of parseInlineFormatting (<<>> where the
\* renderer of the block's type does not call it)
ParsedContents(doc) ==
    [i \in 1..Len(doc.body.blocks) |->
        IF doc.body.blocks[i].type \in ParsedTypes THEN doc.body.blocks[i].content ELSE <<>>]

\* ------------------------------------------------------------------------
\* The renderers.  The HTML is written as a sequence of pieces: a static run
\* of a template is one piece, named by the tag or comment it starts with,
\* and an interpolated text stands character by character.
\* ------------------------------------------------------------------------

\* block.field || fallback, for a number and for a string
NumberOr(b, field, fallback) == IF Has(b, field) /\ b[field] # 0 THEN b[field] ELSE fallback

StringOr(b, field, fallback) == IF Has(b, field) /\ b[field] # <<>> THEN b[field] ELSE fallback

\* `${lineHeight}` of a line height in tenths
TenthsToStr(n) == IF n % 10 = 0 THEN NatToStr(n \div 10) ELSE NatToStr(n \div 10) \o <<".">> \o NatToStr(n % 10)

fontSizeMap == [h1 |-> <<"2","8","p","x">>, h2 |-> <<"2","4","p","x">>, h3 |-> <<"2","0","p","x">>]

\* parsed is the value of parseInlineFormatting(block.content)
renderTitleBlock(b, parsed) ==
    LET tag == IF Has(b, "level") THEN b.level ELSE "h2"
    IN  <<"<table>", "<td style=\"font-size: ">>
        \o (IF tag \in DOMAIN fontSizeMap THEN fontSizeMap[tag] ELSE <<"2","4","p","x">>)
        \o <<";font-weight: 700;color: ">> \o StringOr(b, "color", <<"#","1","a","1","a","1","a">>)
        \o <<";padding-bottom: ">> \o NatToStr(NumberOr(b, "paddingBottom", 20))
        \o <<"px;margin-top: 0;line-height: 1.3\">">> \o parsed \o <<"</table>">>

renderParagraphBlock(b, parsed) ==
    <<"<table>", "<td style=\"color: ">> \o StringOr(b, "color", <<"#","3","3","4","1","5","5">>)
    \o <<";line-height: ">> \o TenthsToStr(NumberOr(b, "lineHeight", 16))
    \o <<";padding-bottom: ">> \o NatToStr(NumberOr(b, "paddingBottom", 16))
    \o <<"px;margin-top: 0;text-align: ", IF Has(b, "textAlign") THEN b.textAlign ELSE "left", "\">">>
    \o parsed \o <<"</table>">>

\* the height of an image is undefined or absent in the documents of the model
renderImageBlock(b) ==
    <<"<table>", "<td style=\"padding-bottom: ">> \o NatToStr(NumberOr(b, "paddingBottom", 16))
    \o <<"px;margin-top: 0;text-align: center\">", "<img src=\"">> \o b.src \o <<"\" alt=\"">> \o b.alt \o <<"\"">>
    \o (IF Has(b, "width") THEN <<" width=\"">> \o NatToStr(b.width) \o <<"\"">> ELSE <<>>)
    \o (IF Has(b, "height") /\ b.height # "undefined"
        THEN <<" height=\"">> \o NatToStr(b.height) \o <<"\"">> ELSE <<>>)
    \o <<" style=\"max-width: ">> \o NatToStr(NumberOr(b, "maxWidth", 600))
    \o <<"px;width: 100%;height: auto;display: block">>
    \o (IF NumberOr(b, "borderRadius", 0) > 0
        THEN <<";border-radius: ">> \o NatToStr(NumberOr(b, "borderRadius", 0)) \o <<"px">> ELSE <<>>)
    \o <<"\" />", "</table>">>

renderButtonBlock(b) ==
    <<"<table>", "<td style=\"margin-top: ">> \o NatToStr(NumberOr(b, "marginTop", 12))
    \o <<"px;padding-bottom: ">> \o NatToStr(NumberOr(b, "paddingBottom", 0))
    \o <<"px;text-align: ", IF Has(b, "align") THEN b.align ELSE "left", "\">">>
    \o <<"<a href=\"">> \o b.href \o <<"\" style=\"background-color: ">>
    \o StringOr(b, "backgroundColor", <<"#","0","0","6","9","5","0">>) \o <<";color: ">> \o StringOr(b, "textColor", <<"#","f","f","f","f","f","f">>)
    \o <<";padding: ">> \o StringOr(b, "padding", <<"1","0","p","x"," ","1","6","p","x">>)
    \o <<";text-decoration: none;border-radius: ">> \o NatToStr(NumberOr(b, "borderRadius", 6))
    \o <<"px;display: inline-block;font-weight: bold;border: none;cursor: pointer\">">>
    \o b.label \o <<"</a>", "</table>">>

renderDividerBlock(b) ==
    <<"<table>", "<td style=\"border-bottom: ">> \o NatToStr(NumberOr(b, "height", 1))
    \o <<"px solid ">> \o StringOr(b, "color", <<"#","e","6","e","9","e","e">>)
    \o <<"; height: 0;\">", "<td style=\"height: ">> \o NatToStr(NumberOr(b, "margin", 16))
    \o <<"px;\">", "</table>">>

renderHighlightBlock(b) ==
    <<"<table", " style=\"background-color: ">>
    \o (IF Has(b, "backgroundColor") THEN b.backgroundColor ELSE <<"u","n","d","e","f","i","n","e","d">>)
    \o <<";border-radius: ">> \o NatToStr(NumberOr(b, "borderRadius", 8))
    \o <<"px;padding-bottom: ">> \o NatToStr(NumberOr(b, "paddingBottom", 20))
    \o <<"px;margin-top: 0 ">>
    \o (IF StringOr(b, "borderColor", <<"t","r","a","n","s","p","a","r","e","n","t">>) # <<"t","r","a","n","s","p","a","r","e","n","t">>
        THEN <<"border: 1px solid ">> \o b.borderColor \o <<";">> ELSE <<>>)
    \o <<"\">", "<td style=\"padding: ">> \o StringOr(b, "padding", <<"2","0","p","x">>)
    \o <<";word-wrap: break-word\">">> \o b.content \o <<"</table>">>

renderBlock(b) ==
    IF b.type \in ParsedTypes
    THEN TheOne({IF parsed = NoReturn THEN NoReturn
                 ELSE IF b.type = "title" THEN renderTitleBlock(b, parsed)
                 ELSE renderParagraphBlock(b, parsed) :
                 parsed \in {parseInlineFormatting(b.content)}})
    ELSE CASE b.type = "image"         -> renderImageBlock(b)
           [] b.type = "button"        -> renderButtonBlock(b)
           [] b.type = "divider"       -> renderDividerBlock(b)
           [] b.type = "highlight-box" -> renderHighlightBlock(b)

\* the document of createEmail has a header, a compliance section and a footer
\* of fixed values; its help section is present or not
renderEmail(doc) ==
    TheOne({IF \E i \in 1..Len(rendered) : rendered[i] = NoReturn THEN NoReturn
            ELSE <<"<!DOCTYPE html>", "<html lang=\"en\">", "<title>", doc.templateType, "</title>", "<body>",
                   "<!-- HEADER SECTION -->", "<img alt=\"Logo\" />",
                   "<!-- BODY BLOCKS SECTION -->">>
                 \o Join(rendered, <<"\n">>)
                 \o <<"<!-- HELP SECTION (if provided) -->">>
                 \o (IF doc.helpSection THEN <<"<!-- Kolom Teks -->", "<h3>", "<!-- Kolom Gambar -->">> ELSE <<>>)
                 \o <<"<!-- COMPLIANCE SECTION -->", "<strong>PT Dana Kripto Indonesia</strong>", "<br />",
                      "sebagai peserta sandbox OJK dengan nomor surat", "<strong>">>
                 \o (IF Has(doc.complianceSection, "sandboxNumber") /\ doc.complianceSection.sandboxNumber # <<>>
                     THEN <<"<strong>">> \o doc.complianceSection.sandboxNumber \o <<"</strong>">>
                     ELSE <<>>)
                 \o <<"</strong>",
                      "<!-- FOOTER SECTION -->", "<p style=\"margin: 4px 0; font-weight: 700;\">",
                      "</body>", "</html>">> :
            rendered \in {[i \in 1..Len(doc.body.blocks) |-> renderBlock(doc.body.blocks[i])]}})

\* ------------------------------------------------------------------------
\* EmailEditor.tsx
\* ------------------------------------------------------------------------

handleAddBlock(doc, newBlock) ==
    [doc EXCEPT !.body = [blocks |-> Append(doc.body.blocks, newBlock)],
                !.blocks = Append(doc.blocks, newBlock)]

UpdateIn(blocks, blockId, updates) ==
    [i \in 1..Len(blocks) |-> IF blocks[i].id = blockId THEN Spread(blocks[i], updates) ELSE blocks[i]]

handleUpdateBlock(doc, blockId, updates) ==
    [doc EXCEPT !.body = [blocks |-> UpdateIn(doc.body.blocks, blockId, updates)],
                !.blocks = UpdateIn(doc.blocks, blockId, updates)]

RemoveFrom(blocks, blockId) == SelectSeq(blocks, LAMBDA b : b.id # blockId)

\* handleRemoveBlock filtering body.blocks alone
handleRemoveBlock_BodyOnly(doc, blockId) ==
    [doc EXCEPT !.body = [blocks |-> RemoveFrom(doc.body.blocks, blockId)]]

handleRemoveBlock(doc, blockId) ==
    [doc EXCEPT !.body = [blocks |-> RemoveFrom(doc.body.blocks, blockId)],
                !.blocks = RemoveFrom(doc.blocks, blockId)]

\* email.body.blocks.find(b => b.id === selectedBlockId), NoBlock for undefined
selectedBlock ==
    LET hits == {i \in 1..Len(email.body.blocks) : email.body.blocks[i].id = selectedBlockId}
    IN  IF hits = {} THEN NoBlock ELSE email.body.blocks[Min(hits)]

\* ------------------------------------------------------------------------
\* Bounds and inputs
\* ------------------------------------------------------------------------

\* number of fragments an input string of the sanitizer is made of
MaxFrags == 3

\* number of tokens / text pieces an input string of the parser is made of
MaxItems == 2

\* all concatenations of at most max pieces
Concats(pieces, max) == {Flatten(fs) : fs \in UNION {[1..n -> pieces] : n \in 0..max}}

HtmlFrags == {<<"<","b">>, <<"<","a">>, <<"<","S","c","R","i","p","t">>, <<">">>, <<" ","o","n","c","l","i","c","k","=","x">>,
              <<" ","h","r","e","f","=","j","a","v","a","s","c","r","i","p","t",":","x">>, <<" ","h","r","e","f","=","h","t","t","p","s",":","/","/","x">>, <<"t","&">>}

\* the inputs of the documented sanitization examples
SanitizationExample == <<"H","e","l","l","o"," ","<","s","c","r","i","p","t",">","a","l","e","r","t","(","\"","x","s","s","\"",")","<","/","s","c","r","i","p","t",">"," ","<","s","t","r","o","n","g",">","w","o","r","l","d","<","/","s","t","r","o","n","g",">">>

TitleExample == <<"H","A","R","I"," ","I","N","I","!"," ","<","s","c","r","i","p","t",">","a","l","e","r","t","(","'","x","'",")","<","/","s","c","r","i","p","t",">">>

SanitizationExamples == {SanitizationExample, TitleExample, <<"a","<","s","c","r","i","p","t",">","x","<","/","s","c","r","i","p","t",">">>}

EscapeFrags == {<<"&">>, <<"<">>, <<">">>, <<"\"">>, <<"'">>, <<"/">>, <<"a">>, <<"&","a","m","p",";">>, <<"#","3","9",";">>}

AllowedTagLists == {StripAllHTMLExcept(bt) : bt \in BlockTypes}

TextFrags == {<<"{","{","e","m","a","i","l","}","}">>, <<"{","{","l","a","s","t","N","a","m","e","}","}">>, <<"{">>, <<"{","{","b","o","l","d",":","#","f","f","f","}","}">>, <<"{","{","/","b","o","l","d","}","}">>,
              <<"_","_","P","E","R","S","O","N","A","L","I","Z","A","T","I","O","N","_","T","O","K","E","N","_","0","_","_">>, <<"a","&">>, <<"<","i",">">>}

ParseItems == {<<"{","{","l","i","n","k",":","j","a","v","a","s","c","r","i","p","t",":","a","}","}","x","{","{","/","l","i","n","k","}","}">>, <<"{","{","l","i","n","k",":","h","t","t","p","s",":","/","/","a","}","}","y","{","{","/","l","i","n","k","}","}">>,
               <<"{","{","l","i","n","k",":","H","T","T","P","S",":","/","/","a","}","}","z","{","{","/","l","i","n","k","}","}">>, <<"{","{","l","i","n","k",":","h","t","t","p","s",":","/","/","a","|","b","o","l","d","|","c","o","l","o","r",":","#","F","0","0","}","}","w","{","{","/","l","i","n","k","}","}">>,
               <<"{","{","l","i","n","k",":","d","a","t","a",":","b","}","}">>, <<"{","{","b","o","l","d",":","#","f","f","f","}","}","b","{","{","/","b","o","l","d","}","}">>, <<"{","{","b","o","l","d",":","r","e","d","}","}","c","{","{","/","b","o","l","d","}","}">>,
               <<"{","{","s","t","y","l","e",":","b","o","l","d","}","}","s","{","{","/","s","t","y","l","e","}","}">>, <<"{","{","s","t","y","l","e",":","x","}","}","u","{","{","/","s","t","y","l","e","}","}">>, <<"t"," ">>,
               <<"{","{","b","o","l","d",":","#","f","f","f","}","}","$","&","{","{","/","b","o","l","d","}","}">>, <<"{","{","s","t","y","l","e",":","}","}","e","{","{","/","s","t","y","l","e","}","}">>,
               <<"{","{","s","t","y","l","e",":","c","o","l","o","r",":","r","e","d","}","}","v","{","{","/","s","t","y","l","e","}","}">>, <<"{","{","s","t","y","l","e",":","s","e","m","i","b","o","l","d","|","c","o","l","o","r",":","#","0","F","0","}","}","k","{","{","/","s","t","y","l","e","}","}">>,
               <<"{","{","l","i","n","k",":","m","a","i","l","t","o",":","m","}","}","n","{","{","/","l","i","n","k","}","}">>, <<"{","{","f","o","o",":","x","}","}","q","{","{","/","f","o","o","}","}">>,
               <<"{","{","s","t","y","l","e",":","b","o","l","d","}","}","$","&","{","{","/","s","t","y","l","e","}","}">>, <<"{","{","s","t","y","l","e",":","c","o","l","o","r",":","r","e","d","|","n","o","r","m","a","l","}","}","p","{","{","/","s","t","y","l","e","}","}">>,
               <<"{","{","l","i","n","k",":","h","t","t","p",":","/","/","h","|","b","i","g","|","c","o","l","o","r",":","r","e","d","}","}","g","{","{","/","l","i","n","k","}","}">>}

\* two cases of the parser's test fixture, each an input with its expected result
BasicLinkCase ==
    <<<<"V","i","s","i","t"," ","{","{","l","i","n","k",":","h","t","t","p","s",":","/","/","e","x","a","m","p","l","e",".","c","o","m","}","}","o","u","r"," ","w","e","b","s","i","t","e","{","{","/","l","i","n","k","}","}"," ","f","o","r"," ","m","o","r","e">>,
      <<"V","i","s","i","t"," ","<","a"," ","h","r","e","f","=","\"","h","t","t","p","s",":","/","/","e","x","a","m","p","l","e",".","c","o","m","\""," ","s","t","y","l","e","=","\"","c","o","l","o","r",":","#","0","0","8","8","6","7",";","t","e","x","t","-","d","e","c","o","r","a","t","i","o","n",":","u","n","d","e","r","l","i","n","e",";","f","o","n","t","-","w","e","i","g","h","t",":","6","0","0",";","\""," ","t","a","r","g","e","t","=","\"","_","b","l","a","n","k","\""," ","r","e","l","=","\"","n","o","o","p","e","n","e","r"," ","n","o","r","e","f","e","r","r","e","r","\"",">","o","u","r"," ","w","e","b","s","i","t","e","<","/","a",">"," ","f","o","r"," ","m","o","r","e">>>>

BoldAndLinkCase ==
    <<<<"B","o","t","h"," ","{","{","b","o","l","d",":","#","0","0","8","8","6","7","}","}","b","o","l","d","{","{","/","b","o","l","d","}","}"," ","a","n","d"," ","{","{","l","i","n","k",":","h","t","t","p","s",":","/","/","e","x","a","m","p","l","e",".","c","o","m","}","}","l","i","n","k","{","{","/","l","i","n","k","}","}"," ","w","o","r","k">>,
      <<"B","o","t","h"," ","<","s","p","a","n"," ","s","t","y","l","e","=","\"","c","o","l","o","r",":","#","0","0","8","8","6","7",";","f","o","n","t","-","w","e","i","g","h","t",":","7","0","0",";","\"",">","b","o","l","d","<","/","s","p","a","n",">"," ","a","n","d"," ","<","a"," ","h","r","e","f","=","\"","h","t","t","p","s",":","/","/","e","x","a","m","p","l","e",".","c","o","m","\""," ","s","t","y","l","e","=","\"","c","o","l","o","r",":","#","0","0","8","8","6","7",";","t","e","x","t","-","d","e","c","o","r","a","t","i","o","n",":","u","n","d","e","r","l","i","n","e",";","f","o","n","t","-","w","e","i","g","h","t",":","6","0","0",";","\""," ","t","a","r","g","e","t","=","\"","_","b","l","a","n","k","\""," ","r","e","l","=","\"","n","o","o","p","e","n","e","r"," ","n","o","r","e","f","e","r","r","e","r","\"",">","l","i","n","k","<","/","a",">"," ","w","o","r","k">>>>

testCases == {BasicLinkCase, BoldAndLinkCase}

Urls == {<<"h","t","t","p","s",":","/","/","a">>, <<"h","t","t","p",":","/","/","a">>, <<"H","T","T","P","S",":","/","/","a">>, <<"m","a","i","l","t","o",":","a">>, <<"j","a","v","a","s","c","r","i","p","t",":","a">>,
         <<"h","t","t","p","s",":","/","/">>, <<"a">>, <<>>}

Labels == {<<"G","o">>, <<" ","<","b",">","G","o","<","/","b",">"," ","&"," ">>, <<>>}

Contents == {<<"H","i">>, <<"<","s","c","r","i","p","t",">","x","<","/","s","c","r","i","p","t",">">>, <<"a"," ","&"," ","{","{","e","m","a","i","l","}","}">>, <<"{","{","b","o","l","d",":","#","f","f","f","}","}","b","{","{","/","b","o","l","d","}","}">>, <<>>}

RawBlocksOf(id) ==
    {[type |-> t, id |-> id, content |-> c] : t \in {"title", "paragraph", "highlight-box"}, c \in Contents}
    \cup {[type |-> "button", id |-> id, label |-> l, href |-> u] : l \in Labels, u \in Urls}
    \cup {[type |-> "image", id |-> id, alt |-> l, src |-> u] : l \in Labels, u \in Urls}
    \cup {[type |-> "divider", id |-> id]}

MaxInput == 2

MaxBlocks == 2

MaxNow == 3

CreateBlocksOf(id) ==
    {[type |-> t, id |-> id, content |-> c] :
        t \in {"title", "paragraph"}, c \in {<<"H","i">>, <<"<","s","c","r","i","p","t",">","x","<","/","s","c","r","i","p","t",">">>, <<"a"," ","&"," ","{","{","e","m","a","i","l","}","}">>}}
    \cup {[type |-> "button", id |-> id, label |-> <<"G","o">>, href |-> u] :
            u \in {<<"h","t","t","p","s",":","/","/","a">>, <<"h","t","t","p",":","/","/","a">>, <<"j","a","v","a","s","c","r","i","p","t",":","a">>, <<>>}}
    \cup {[type |-> "image", id |-> id, alt |-> <<"G","o">>, src |-> u] : u \in {<<"h","t","t","p","s",":","/","/","a">>, <<"h","t","t","p",":","/","/","a">>}}
    \cup {[type |-> "divider", id |-> id]}

CreateBlocks == CreateBlocksOf(<<"b","1">>) \cup CreateBlocksOf(<<"b","2">>)

FormTypes == {"paragraph", "button", "image", "divider"}

FormContents == {<<"<","i",">","x","<","/","i",">","&">>}

FormLabels == {<<"G","o">>}

FormHrefs == {<<"j","a","v","a","s","c","r","i","p","t",":","a">>}

FormSrcs == {<<"h","t","t","p","s",":","/","/","a">>}

\* ------------------------------------------------------------------------
\* Calls of the pure functions
\* ------------------------------------------------------------------------

NoCall == /\ result = <<>>
          /\ call = "none"
          /\ returned = NoBlock
          /\ threw = FALSE

NoEditor == /\ templateType = "open-fund"
            /\ inputBlocks = <<>>
            /\ email = NoEmail
            /\ selectedBlockId = NoId
            /\ form = InitialState
            /\ now = 0

InitHtml == /\ text \in Concats(HtmlFrags, MaxFrags)
            /\ allowedTags \in AllowedTagLists
            /\ blockType = "paragraph"
            /\ block = NoBlock
            /\ NoCall
            /\ NoEditor

SanitizeHtml == /\ call = "none"
                /\ call' = "sanitizeHtml"
                /\ result' = sanitizeHtml(text, allowedTags)
                /\ UNCHANGED <<text, blockType, allowedTags, block, returned, threw, editorVars>>

NextHtml == SanitizeHtml

SpecHtml == InitHtml /\ [][NextHtml]_vars

InitText == /\ text \in Concats(TextFrags, MaxFrags) \cup SanitizationExamples
            /\ blockType \in BlockTypes
            /\ allowedTags = StripAllHTMLExcept(blockType)
            /\ block = NoBlock
            /\ NoCall
            /\ NoEditor

SanitizeTextContent == /\ call = "none"
                       /\ call' = "sanitizeTextContent"
                       /\ result' = sanitizeTextContent(text, blockType)
                       /\ UNCHANGED <<text, blockType, allowedTags, block, returned, threw, editorVars>>

NextText == SanitizeTextContent

SpecText == InitText /\ [][NextText]_vars

InitParse == /\ text \in Concats(ParseItems, MaxItems) \cup {case[1] : case \in testCases}
             /\ blockType = "paragraph"
             /\ allowedTags = <<>>
             /\ block = NoBlock
             /\ NoCall
             /\ NoEditor

ParseInlineFormatting == /\ call = "none"
                         /\ call' = "parseInlineFormatting"
                         /\ result' = parseInlineFormatting(text)
                         /\ UNCHANGED <<text, blockType, allowedTags, block, returned, threw, editorVars>>

NextParse == ParseInlineFormatting

SpecParse == InitParse /\ [][NextParse]_vars

InitBlock == /\ block \in RawBlocksOf(<<"b","1">>)
             /\ text = <<>>
             /\ blockType = block.type
             /\ allowedTags = <<>>
             /\ NoCall
             /\ NoEditor

SanitizeBlock == /\ call = "none"
                 /\ call' = "sanitizeBlock"
                 /\ threw' = sanitizeBlockThrows(block)
                 /\ returned' = IF sanitizeBlockThrows(block) THEN NoBlock ELSE sanitizeBlock(block)
                 /\ UNCHANGED <<text, blockType, allowedTags, result, block, editorVars>>

NextBlock == SanitizeBlock

SpecBlock == InitBlock /\ [][NextBlock]_vars

InitEscape == /\ text \in Concats(EscapeFrags, MaxFrags)
              /\ blockType = "paragraph"
              /\ allowedTags = <<>>
              /\ block = NoBlock
              /\ NoCall
              /\ NoEditor

EscapeHtml == /\ call = "none"
              /\ call' = "escapeHtml"
              /\ result' = escapeHtml(text)
              /\ UNCHANGED <<text, blockType, allowedTags, block, returned, threw, editorVars>>

NextEscape == EscapeHtml

SpecEscape == InitEscape /\ [][NextEscape]_vars

\* ------------------------------------------------------------------------
\* createEmail called on a list of blocks
\* ------------------------------------------------------------------------

NoPureCall == /\ text = <<>>
              /\ blockType = "paragraph"
              /\ allowedTags = <<>>
              /\ block = NoBlock
              /\ NoCall

InitCreate == /\ templateType \in TemplateTypes
              /\ inputBlocks \in UNION {[1..n -> CreateBlocks] : n \in 0..MaxInput}
              /\ email = NoEmail
              /\ selectedBlockId = NoId
              /\ form = InitialState
              /\ now = 0
              /\ NoPureCall

CreateEmail == /\ email = NoEmail
               /\ email' = createEmail(templateType, inputBlocks)
               /\ UNCHANGED <<callVars, templateType, inputBlocks, selectedBlockId, form, now>>

NextCreate == CreateEmail

SpecCreate == InitCreate /\ [][NextCreate]_vars

\* ------------------------------------------------------------------------
\* renderEmail called on a document
\* ------------------------------------------------------------------------

RenderBlocks ==
    {[type |-> "title", id |-> <<"b","1">>, content |-> <<"H","i">>],
     [type |-> "paragraph", id |-> <<"b","2">>, content |-> <<"{","{","b","o","l","d",":","#","f","f","f","}","}","b","{","{","/","b","o","l","d","}","}">>],
     [type |-> "paragraph", id |-> <<"b","3">>, content |-> <<"{","{","s","t","y","l","e",":","b","o","l","d","}","}","$","&","{","{","/","s","t","y","l","e","}","}">>],
     [type |-> "button", id |-> <<"b","4">>, label |-> <<"G","o">>, href |-> <<"h","t","t","p","s",":","/","/","a">>],
     [type |-> "image", id |-> <<"b","5">>, alt |-> <<"G","o">>, src |-> <<"h","t","t","p","s",":","/","/","a">>],
     [type |-> "divider", id |-> <<"b","6">>],
     [type |-> "highlight-box", id |-> <<"b","7">>, content |-> <<"H","i">>]}

\* the document after the editor has added the blocks, one by one
RECURSIVE AddedTo(_, _)
AddedTo(doc, blocks) ==
    IF blocks = <<>> THEN doc ELSE AddedTo(handleAddBlock(doc, Head(blocks)), Tail(blocks))

\* the compliance section of createEmail and two others, one without a number
ComplianceSections ==
    {[text |-> <<"P","T"," ","D","a","n","a"," ","K","r","i","p","t","o"," ","I","n","d","o","n","e","s","i","a"," ","s","e","b","a","g","a","i"," ","p","e","s","e","r","t","a"," ","s","a","n","d","b","o","x"," ","O","J","K">>, sandboxNumber |-> <<"S","-","1","9","6","/","I","K",".","0","1","/","2","0","2","5">>],
     [text |-> <<"N","o","t","i","c","e">>],
     [text |-> <<"N","o","t","i","c","e">>, sandboxNumber |-> <<"S","-","1">>]}

\* a document of createEmail or one the editor makes of an empty document, with
\* its help section or without, with one of the compliance sections
InitRender == /\ templateType = "open-fund"
              /\ inputBlocks = <<>>
              /\ \E blocks \in UNION {[1..n -> RenderBlocks] : n \in 0..MaxBlocks}, edited \in BOOLEAN :
                    \E doc \in {AddedTo(createEmail("open-fund", IF edited THEN <<>> ELSE blocks),
                                        IF edited THEN blocks ELSE <<>>)} :
                       \E help \in BOOLEAN, compliance \in ComplianceSections :
                          email = [doc EXCEPT !.helpSection = help, !.complianceSection = compliance]
              /\ selectedBlockId = NoId
              /\ form = InitialState
              /\ now = 0
              /\ NoPureCall

RenderEmail == /\ call = "none"
               /\ call' = "renderEmail"
               /\ result' = renderEmail(email)
               /\ UNCHANGED <<text, blockType, allowedTags, block, returned, threw, editorVars>>

NextRender == RenderEmail

SpecRender == InitRender /\ [][NextRender]_vars

\* ------------------------------------------------------------------------
\* renderBlock called on a block with styling attributes
\* ------------------------------------------------------------------------

\* the optional numeric styling attributes of a block type
NumericAttributes(type) ==
    CASE type = "title"         -> {"paddingBottom"}
      [] type = "paragraph"     -> {"lineHeight", "paddingBottom"}
      [] type = "image"         -> {"maxWidth", "borderRadius", "paddingBottom"}
      [] type = "button"        -> {"borderRadius", "marginTop", "paddingBottom"}
      [] type = "divider"       -> {"height", "margin"}
      [] type = "highlight-box" -> {"borderRadius", "paddingBottom"}

\* a block of each type, plain
PlainBlocks ==
    {[type |-> "title", id |-> <<"b","1">>, content |-> <<"H","i">>, level |-> "h1"],
     [type |-> "paragraph", id |-> <<"b","2">>, content |-> <<"H","i">>],
     [type |-> "paragraph", id |-> <<"b","2">>, content |-> <<"H","i">>, color |-> <<"#","0","0","0","0","0","0">>],
     [type |-> "button", id |-> <<"b","4">>, label |-> <<"G","o">>, href |-> <<"h","t","t","p","s",":","/","/","a">>],
     [type |-> "image", id |-> <<"b","5">>, alt |-> <<"G","o">>, src |-> <<"h","t","t","p","s",":","/","/","a">>],
     [type |-> "divider", id |-> <<"b","6">>],
     [type |-> "divider", id |-> <<"b","6">>, color |-> <<"#","0","0","0","0","0","0">>],
     [type |-> "highlight-box", id |-> <<"b","7">>, content |-> <<"H","i">>, backgroundColor |-> <<"#","f","8","f","4","e","6">>]}

\* the plain blocks with any of their numeric attributes set, to 0 or more
StyledBlocks ==
    UNION {{Spread(b, attrs) : attrs \in UNION {[F -> {0, 8, 24}] : F \in SUBSET NumericAttributes(b.type)}} :
           b \in PlainBlocks}

InitStyle == /\ block \in StyledBlocks
             /\ text = <<>>
             /\ blockType = block.type
             /\ allowedTags = <<>>
             /\ NoCall
             /\ NoEditor

RenderBlock == /\ call = "none"
               /\ call' = "renderBlock"
               /\ result' = renderBlock(block)
               /\ UNCHANGED <<text, blockType, allowedTags, block, returned, threw, editorVars>>

NextStyle == RenderBlock

SpecStyle == InitStyle /\ [][NextStyle]_vars

\* ------------------------------------------------------------------------
\* lib/inlineFormatting.ts: the formatting buttons of the form, applied to the
\* selection selectionStart..selectionEnd of a text
\* ------------------------------------------------------------------------

\* String.prototype.substring, for 0 <= a <= b <= length
Substring(s, a, b) == SubSeq(s, a + 1, b)

\* beforeSelection + formatted + afterSelection
Wrapped(s, selectionStart, selectionEnd, opening, closing) ==
    Substring(s, 0, selectionStart) \o opening \o Substring(s, selectionStart, selectionEnd) \o closing
    \o Substring(s, selectionEnd, Len(s))

applyInlineFormatting(s, selectionStart, selectionEnd, color) ==
    IF selectionStart = selectionEnd THEN s
    ELSE Wrapped(s, selectionStart, selectionEnd, <<"{","{","b","o","l","d",":">> \o color \o <<"}","}">>, <<"{","{","/","b","o","l","d","}","}">>)

applyLinkFormatting(s, selectionStart, selectionEnd, url) ==
    IF selectionStart = selectionEnd THEN s
    ELSE Wrapped(s, selectionStart, selectionEnd, <<"{","{","l","i","n","k",":">> \o url \o <<"}","}">>, <<"{","{","/","l","i","n","k","}","}">>)

\* color is <<>> for null
applyCombinedLinkFormatting(s, selectionStart, selectionEnd, url, bold, color) ==
    IF selectionStart = selectionEnd THEN s
    ELSE LET spec == url \o (IF bold THEN <<"|","b","o","l","d">> ELSE <<>>)
                         \o (IF color # <<>> THEN <<"|","c","o","l","o","r",":">> \o color ELSE <<>>)
         IN  Wrapped(s, selectionStart, selectionEnd, <<"{","{","l","i","n","k",":">> \o spec \o <<"}","}">>, <<"{","{","/","l","i","n","k","}","}">>)

\* weight and color are <<>> for null
applyStyleFormatting(s, selectionStart, selectionEnd, weight, color) ==
    IF selectionStart = selectionEnd THEN s
    ELSE IF weight = <<>> /\ color = <<>> THEN s
    ELSE LET spec == weight \o (IF color # <<>> THEN (IF weight # <<>> THEN <<"|">> ELSE <<>>) \o <<"c","o","l","o","r",":">> \o color
                                ELSE <<>>)
         IN  Wrapped(s, selectionStart, selectionEnd, <<"{","{","s","t","y","l","e",":">> \o spec \o <<"}","}">>, <<"{","{","/","s","t","y","l","e","}","}">>)

\* the buttons are pressed on a text of at most this length
MaxFormatLen == 24

Selections(s) == {sel \in (0..Len(s)) \X (0..Len(s)) : sel[1] <= sel[2]}

InitFormat == /\ text \in {<<"a">>, <<"a","b">>}
              /\ blockType = "paragraph"
              /\ allowedTags = <<>>
              /\ block = NoBlock
              /\ NoCall
              /\ NoEditor

Formatted(name, formatted) ==
    /\ call' = name
    /\ text' = formatted
    /\ UNCHANGED <<blockType, allowedTags, result, block, returned, threw, editorVars>>

ApplyInlineFormatting ==
    /\ Len(text) <= MaxFormatLen
    /\ \E sel \in Selections(text) :
       Formatted("applyInlineFormatting", applyInlineFormatting(text, sel[1], sel[2], <<"#","f","0","0">>))

ApplyLinkFormatting ==
    /\ Len(text) <= MaxFormatLen
    /\ \E sel \in Selections(text) :
       Formatted("applyLinkFormatting", applyLinkFormatting(text, sel[1], sel[2], <<"h","t","t","p","s",":","/","/","a">>))

ApplyCombinedLinkFormatting ==
    /\ Len(text) <= MaxFormatLen
    /\ \E sel \in Selections(text), bold \in BOOLEAN, color \in {<<>>, <<"#","f","0","0">>} :
       Formatted("applyCombinedLinkFormatting",
                 applyCombinedLinkFormatting(text, sel[1], sel[2], <<"h","t","t","p","s",":","/","/","a">>, bold, color))

ApplyStyleFormatting ==
    /\ Len(text) <= MaxFormatLen
    /\ \E sel \in Selections(text), weight \in {<<>>, <<"b","o","l","d">>}, color \in {<<>>, <<"#","f","0","0">>} :
       Formatted("applyStyleFormatting", applyStyleFormatting(text, sel[1], sel[2], weight, color))

NextFormat == \/ ApplyInlineFormatting
              \/ ApplyLinkFormatting
              \/ ApplyCombinedLinkFormatting
              \/ ApplyStyleFormatting

SpecFormat == InitFormat /\ [][NextFormat]_vars

\* ------------------------------------------------------------------------
\* The validator called on a document
\* ------------------------------------------------------------------------

\* number of blocks of a validated document
MaxOrdered == 4

\* blocks of the types a close-fund email is ordered by, and a highlight box
\* without its background color
OrderedBlocks ==
    {[type |-> "paragraph", content |-> <<"H","i">>],
     [type |-> "divider"],
     [type |-> "highlight-box", content |-> <<"H","i">>, backgroundColor |-> <<"#","f","8","f","4","e","6">>],
     [type |-> "highlight-box", content |-> <<"H","i">>]}

\* a document of the blocks, the i-th with the id b<i>
Document(t, blocks) ==
    TheOne({[templateType |-> t, blocks |-> identified, body |-> [blocks |-> identified],
             helpSection |-> TRUE,
             complianceSection |-> [text |-> <<"N","o","t","i","c","e">>],
             isValid |-> FALSE, validationErrors |-> <<>>] :
            identified \in {[i \in 1..Len(blocks) |-> Spread(blocks[i], [id |-> <<"b">> \o NatToStr(i)])]}})

InitValidate == /\ templateType \in TemplateTypes
                /\ inputBlocks = <<>>
                /\ \E blocks \in UNION {[1..n -> OrderedBlocks] : n \in 0..MaxOrdered} :
                      email = Document(templateType, blocks)
                /\ selectedBlockId = NoId
                /\ form = InitialState
                /\ now = 0
                /\ NoPureCall

\* isEmailDocumentValid and getValidationSummary called with the same arguments
Validate == /\ call = "none"
            /\ call' = "isEmailDocumentValid"
            /\ \E strict \in BOOLEAN :
                  result' = [strict |-> strict,
                             valid |-> isEmailDocumentValid(email, strict),
                             summary |-> getValidationSummary(email, strict)]
            /\ UNCHANGED <<text, blockType, allowedTags, block, returned, threw, editorVars>>

\* blockOrderRule.validate called with the template's configuration, reordering disabled
BlockOrderRule ==
    /\ call = "none"
    /\ call' = "blockOrderRule"
    /\ \E strict \in BOOLEAN :
          result' = blockOrderRule([templateConfig |-> [getTemplateConfig(templateType)
                                                           EXCEPT !.allowReordering = FALSE],
                                    email |-> email, strict |-> strict])
    /\ UNCHANGED <<text, blockType, allowedTags, block, returned, threw, editorVars>>

NextValidate == \/ Validate
                \/ BlockOrderRule

SpecValidate == InitValidate /\ [][NextValidate]_vars

\* ------------------------------------------------------------------------
\* The editor: EmailEditor with its BlockList and BlockForm
\* ------------------------------------------------------------------------

Init == /\ templateType \in TemplateTypes
        /\ inputBlocks = <<>>
        /\ email = createEmail(templateType, <<>>)
        /\ selectedBlockId = NoId
        /\ form = InitialState
        /\ now = 1
        /\ NoPureCall

\* the Content Type select, disabled while a block is selected
SetType == /\ selectedBlock = NoBlock
           /\ \E t \in FormTypes : form' = [form EXCEPT !.type = t]
           /\ UNCHANGED <<callVars, templateType, inputBlocks, email, selectedBlockId, now>>

SetContent == /\ form.type \in {"title", "paragraph", "highlight-box"}
              /\ \E v \in FormContents : form' = [form EXCEPT !.content = v]
              /\ UNCHANGED <<callVars, templateType, inputBlocks, email, selectedBlockId, now>>

SetLabel == /\ form.type = "button"
            /\ \E v \in FormLabels : form' = [form EXCEPT !.label = v]
            /\ UNCHANGED <<callVars, templateType, inputBlocks, email, selectedBlockId, now>>

SetHref == /\ form.type = "button"
           /\ \E v \in FormHrefs : form' = [form EXCEPT !.href = v]
           /\ UNCHANGED <<callVars, templateType, inputBlocks, email, selectedBlockId, now>>

SetSrc == /\ form.type = "image"
          /\ \E v \in FormSrcs : form' = [form EXCEPT !.src = v]
          /\ UNCHANGED <<callVars, templateType, inputBlocks, email, selectedBlockId, now>>

SetAlt == /\ form.type = "image"
          /\ \E v \in FormLabels : form' = [form EXCEPT !.alt = v]
          /\ UNCHANGED <<callVars, templateType, inputBlocks, email, selectedBlockId, now>>

\* handleSave with a selected block: onUpdate(block.id, createBlockUpdates(state))
SaveUpdate == /\ validateBlock(form)
              /\ selectedBlock # NoBlock
              /\ email' = handleUpdateBlock(email, selectedBlock.id, createBlockUpdates(form))
              /\ UNCHANGED <<callVars, templateType, inputBlocks, selectedBlockId, form, now>>

\* handleSave without one: onAddNew(createNewBlock(state)); setState(getInitialState())
SaveNew == /\ validateBlock(form)
           /\ selectedBlock = NoBlock
           /\ Len(email.body.blocks) < MaxBlocks
           /\ now <= MaxNow
           /\ email' = handleAddBlock(email, createNewBlock(form, now))
           /\ selectedBlockId' = NoId
           /\ form' = getInitialState(NoBlock)
           /\ now' = now + 1
           /\ UNCHANGED <<callVars, templateType, inputBlocks>>

SelectBlock == /\ \E i \in 1..Len(email.body.blocks) : selectedBlockId' = email.body.blocks[i].id
               /\ UNCHANGED <<callVars, templateType, inputBlocks, email, form, now>>

RemoveBlock == /\ \E i \in 1..Len(email.body.blocks) :
                      email' = handleRemoveBlock(email, email.body.blocks[i].id)
               /\ selectedBlockId' = NoId
               /\ UNCHANGED <<callVars, templateType, inputBlocks, form, now>>

Next == \/ SetType \/ SetContent \/ SetLabel \/ SetHref \/ SetSrc \/ SetAlt
        \/ SaveUpdate \/ SaveNew \/ SelectBlock \/ RemoveBlock

Spec == Init /\ [][Next]_vars

\* the editor with the src and alt fields left alone: titles, paragraphs,
\* buttons and dividers are added, updated and removed
NextEdit == \/ SetType \/ SetContent \/ SetLabel \/ SetHref
            \/ SaveUpdate \/ SaveNew \/ SelectBlock \/ RemoveBlock

SpecEdit == Init /\ [][NextEdit]_vars

\* ------------------------------------------------------------------------
\* Helpers of the properties
\* ------------------------------------------------------------------------

\* number of (possibly overlapping) occurrences of p in s
Count(s, p) == Cardinality({i \in 1..Len(s) : StartsWithAt(s, i, p)})

\* the tags of a sanitized string, left to right
RECURSIVE TagsFrom(_, _)
TagsFrom(s, from) == LET m == NextTagMatch(s, from)
                     IN  IF m.index = 0 THEN <<>> ELSE <<m>> \o TagsFrom(s, m.end + 1)

\* the attributes written in a tag: the name=value words after the tag name
TagAttributes(tag) ==
    LET words == Split(SubSeq(tag.fullTag, 1, Len(tag.fullTag) - 1), " ")
    IN  {[name  |-> toLowerCase(SubSeq(w, 1, IndexOfFrom(w, <<"=">>, 1) - 1)),
          value |-> From(w, IndexOfFrom(w, <<"=">>, 1) + 1)] :
            w \in {words[i] : i \in 2..Len(words)} \cap {w \in SeqToSet(words) : includes(w, <<"=">>)}}

IsDangerousAttribute(name) == name \in SeqToSet(DANGEROUS_ATTRIBUTES) \/ startsWith(name, <<"o","n">>)

PersonalizationTokens == {<<"{","{","f","i","r","s","t","N","a","m","e","}","}">>, <<"{","{","l","a","s","t","N","a","m","e","}","}">>, <<"{","{","e","m","a","i","l","}","}">>}

\* the personalization tokens written in a string, left to right
RECURSIVE PTokSeq(_, _)
PTokSeq(s, i) ==
    IF i > Len(s) THEN <<>>
    ELSE IF \E t \in PersonalizationTokens : StartsWithAt(s, i, t)
         THEN LET t == CHOOSE t \in PersonalizationTokens : StartsWithAt(s, i, t)
              IN  <<t>> \o PTokSeq(s, i + Len(t))
         ELSE PTokSeq(s, i + 1)

FormattingMarkers == {<<"{","{","b","o","l","d",":","#","f","f","f","}","}">>, <<"{","{","/","b","o","l","d","}","}">>, <<"{","{","s","t","y","l","e",":","b","o","l","d","}","}">>, <<"{","{","/","s","t","y","l","e","}","}">>,
                      <<"{","{","l","i","n","k",":","h","t","t","p","s",":","/","/","a","}","}">>, <<"{","{","/","l","i","n","k","}","}">>}

\* the six entities of UNSAFE_CHARS with the character each stands for
Entities == {<<<<"&","a","m","p",";">>, "&">>, <<<<"&","l","t",";">>, "<">>, <<<<"&","g","t",";">>, ">">>, <<<<"&","q","u","o","t",";">>, "\"">>,
             <<<<"&","#","3","9",";">>, "'">>, <<<<"&","#","x","2","F",";">>, "/">>}

\* s read left to right with each entity turned back, once, into its character
RECURSIVE Unescaped(_, _)
Unescaped(s, i) ==
    IF i > Len(s) THEN <<>>
    ELSE IF \E e \in Entities : StartsWithAt(s, i, e[1])
         THEN LET e == CHOOSE e \in Entities : StartsWithAt(s, i, e[1])
              IN  <<e[2]>> \o Unescaped(s, i + Len(e[1]))
         ELSE <<s[i]>> \o Unescaped(s, i + 1)

\* the texts written between a <script> and the next </script> of s
ScriptInners(s) ==
    {SubSeq(s, i + 8, IndexOfFrom(toLowerCase(s), <<"<","/","s","c","r","i","p","t",">">>, i + 8) - 1) :
        i \in {i \in 1..Len(s) : /\ StartsWithAt(toLowerCase(s), i, <<"<","s","c","r","i","p","t",">">>)
                                 /\ IndexOfFrom(toLowerCase(s), <<"<","/","s","c","r","i","p","t",">">>, i + 8) > 0}}

\* s with each bold token replaced, where it stands, by the span of its color
\* around its content
RECURSIVE BoldExpanded(_, _)
BoldExpanded(s, i) ==
    IF i > Len(s) THEN <<>>
    ELSE LET m == BoldMatchAt(s, i)
         IN  IF m.index = 0 THEN <<s[i]>> \o BoldExpanded(s, i + 1)
             ELSE <<"<","s","p","a","n"," ","s","t","y","l","e","=","\"","c","o","l","o","r",":">> \o m.spec \o <<";","f","o","n","t","-","w","e","i","g","h","t",":","7","0","0",";","\"",">">> \o m.content
                  \o <<"<","/","s","p","a","n",">">> \o BoldExpanded(s, m.end + 1)

\* ------------------------------------------------------------------------
\* Properties
\* ------------------------------------------------------------------------

\* C1: every tag that sanitizeHtml keeps carries no dangerous attribute (on*
\* handlers, style, class, id), only the attributes whitelisted for the tag, and
\* no href/src whose value fails the protocol check.
C1_KeptTagsAreFiltered ==
    call = "sanitizeHtml" =>
        \A k \in 1..Len(TagsFrom(result, 1)) :
            LET tag == TagsFrom(result, 1)[k]
            IN  \A attr \in TagAttributes(tag) :
                    /\ ~IsDangerousAttribute(attr.name)
                    /\ attr.name \in SeqToSet(AllowedAttributes(tag.tagName))
                    /\ attr.name \in {<<"h","r","e","f">>, <<"s","r","c">>} => isValidUrlProtocol(attr.value)

\* C2: the output of sanitizeHtml contains no <name or </name, in any letter
\* case, for a name of the dangerous-tag set.
C2_NoDangerousTagInOutput ==
    call = "sanitizeHtml" =>
        \A d \in SeqToSet(DANGEROUS_TAGS) :
            /\ ~includes(toLowerCase(result), <<"<">> \o d)
            /\ ~includes(toLowerCase(result), <<"<","/">> \o d)

\* C3: every block of the document that createEmail returns, in blocks and in
\* body.blocks, is the result of a sanitizeBlock call that did not throw on
\* the input block at its position; in particular no input block on which
\* sanitizeBlock throws is stored as it was given.
C3_StoredBlocksPassedSanitizeBlock ==
    email # NoEmail =>
        /\ Len(email.blocks) <= Len(inputBlocks)
        /\ Len(email.body.blocks) <= Len(inputBlocks)
        /\ \A stored \in {email.blocks, email.body.blocks} :
              \A j \in 1..Len(stored) :
                 \E i \in 1..Len(inputBlocks) :
                    /\ ~sanitizeBlockThrows(inputBlocks[i])
                    /\ stored[j] = sanitizeBlock(inputBlocks[i])

\* C4: in every step of the editor, a content that the preview hands to
\* parseInlineFormatting and that the step has added or changed is the content
\* of sanitizeBlock applied, without throwing, to the block the handler was
\* given (the new block of handleAddBlock, the merged block of
\* handleUpdateBlock).
C4_PreviewContentsPassedSanitizer ==
    [][\A i \in 1..Len(email'.body.blocks) :
          LET old == email.body.blocks
              new == email'.body.blocks
              raw == IF Len(new) > Len(old)
                     THEN createNewBlock(form, now)
                     ELSE Spread(old[i], createBlockUpdates(form))
          IN  (/\ Len(new) >= Len(old)
               /\ i > Len(old) \/ new[i] # old[i]
               /\ new[i].type \in ParsedTypes)
              => /\ ~sanitizeBlockThrows(raw)
                 /\ ParsedContents(email')[i] = sanitizeBlock(raw).content]_vars

\* C5: no link token whose URL fails validation is left in the output of
\* parseInlineFormatting, whatever link tokens stand before or after it.
C5_InvalidLinkTokensUnwrapped ==
    call = "parseInlineFormatting" =>
        \A k \in 1..Len(StaticMatches(text, 1, <<"l","i","n","k">>)) :
            LET m == StaticMatches(text, 1, <<"l","i","n","k">>)[k]
            IN  ~linkIsValidUrl(parseLinkModifiers(m.spec).url) => ~includes(result, m.fullToken)

\* C6: sanitizeTextContent leaves the inline-formatting markers of the content
\* where they are.
C6_FormattingTokensUntouched ==
    call = "sanitizeTextContent" =>
        \A marker \in FormattingMarkers : Count(result, marker) = Count(text, marker)

\* C7: a text that is one link token is expanded to an anchor exactly when
\* isValidUrlProtocol accepts the token's URL.
C7_LinkCheckIsProtocolCheck ==
    call = "parseInlineFormatting" =>
        LET m == Exec(text, 1, <<"l","i","n","k">>)
        IN  (m.index = 1 /\ m.end = Len(text)) =>
                (startsWith(result, <<"<","a"," ","h","r","e","f","=","\"">>) <=> isValidUrlProtocol(parseLinkModifiers(m.spec).url))

\* C8: the text that restorePersonalizationTokens rewrites holds each
\* placeholder only where a token was extracted, so that nothing the user
\* typed is replaced by a token.
C8_RestoreOnlyWhereExtracted ==
    (call = "sanitizeTextContent" /\ text # <<>>) =>
        LET tokens == extractPersonalizationTokens(text).tokens
        IN  \A k \in 1..Len(tokens) : Count(SanitizedWithPlaceholders(text, blockType), tokens[k][1]) <= 1

\* C9: the personalization tokens of the input are the personalization tokens
\* of the output of sanitizeTextContent, in the same order.
C9_PersonalizationTokensSurvive ==
    call = "sanitizeTextContent" => PTokSeq(result, 1) = PTokSeq(text, 1)

\* C10: sanitizeBlock throws exactly for a button whose href, or an image
\* whose src, is not a well-formed https URL, and returns the sanitized copy
\* otherwise.
C10_ThrowsExactlyOnNonHttps ==
    call = "sanitizeBlock" =>
        /\ threw <=> \/ block.type = "button" /\ ~isValidUrl(block.href, TRUE)
                     \/ block.type = "image" /\ ~isValidUrl(block.src, TRUE)
        /\ ~threw => returned = sanitizeBlock(block)

C12_ScriptInnerTextRemoved ==
    (call = "sanitizeTextContent" /\ blockType \in {"title", "paragraph"}) =>
        /\ \A inner \in ScriptInners(text) :
              (inner # <<>> /\ Count(text, inner) = 1) =>
                  /\ ~includes(result, inner)
                  /\ ~includes(result, escapeHtml(inner))
        /\ (text = SanitizationExample /\ blockType = "paragraph") =>
              result = <<"H","e","l","l","o"," "," ","<","s","t","r","o","n","g",">","w","o","r","l","d","<","/","s","t","r","o","n","g",">">>

\* a token of a kind written at i: the opening marker with any spec, the empty
\* one included, the enclosed text and the closing marker
WrittenTokenAt(s, i, kind) ==
    LET open  == <<"{","{">> \o kind \o <<":">>
        close == <<"{","{","/">> \o kind \o <<"}","}">>
        c0    == i + Len(open)
        n     == RunLen(s, c0, "notClose")
        body  == c0 + n + 2
        c     == IF StartsWithAt(s, c0 + n, <<"}","}">>) THEN LazyContentEnd(s, body, close) ELSE 0
    IN  IF StartsWithAt(s, i, open) /\ c # 0
        THEN [index |-> i, end |-> c + Len(close) - 1, spec |-> SubSeq(s, c0, c0 + n - 1),
              content |-> SubSeq(s, body, c - 1)]
        ELSE [index |-> 0]

StyleTokenAt(s, i) == WrittenTokenAt(s, i, <<"s","t","y","l","e">>)

LinkTokenAt(s, i) == WrittenTokenAt(s, i, <<"l","i","n","k">>)

\* the URL of a link spec: what stands before the first "|", trimmed
UrlOf(spec) == trim(Split(spec, "|")[1])

\* the anchor a link spec asks for around a content: its color modifier or the
\* default color, weight 700 with the bold modifier and 600 without
SpecifiedAnchor(spec, content) ==
    LET split  == Split(spec, "|")
        mods   == {trim(split[i]) : i \in 2..Len(split)}
        colors == {From(p, 7) : p \in {p \in mods : startsWith(p, <<"c","o","l","o","r",":">>) /\ IsHexColor(From(p, 7))}}
    IN  <<"<","a"," ","h","r","e","f","=","\"">> \o UrlOf(spec) \o <<"\""," ","s","t","y","l","e","=","\"","c","o","l","o","r",":">>
        \o (IF colors = {} THEN <<"#","0","0","8","8","6","7">> ELSE CHOOSE c \in colors : TRUE)
        \o <<";","t","e","x","t","-","d","e","c","o","r","a","t","i","o","n",":","n","o","n","e",";","f","o","n","t","-","w","e","i","g","h","t",":">>
        \o (IF <<"b","o","l","d">> \in mods THEN <<"7","0","0">> ELSE <<"6","0","0">>)
        \o <<";","\""," ","t","a","r","g","e","t","=","\"","_","b","l","a","n","k","\""," ","r","e","l","=","\"","n","o","o","p","e","n","e","r"," ","n","o","r","e","f","e","r","r","e","r","\"",">">> \o content \o <<"<","/","a",">">>

\* s with each link token replaced, where it stands, by the anchor its spec
\* asks for
RECURSIVE LinkAnchored(_, _)
LinkAnchored(s, i) ==
    IF i > Len(s) THEN <<>>
    ELSE LET m == LinkTokenAt(s, i)
         IN  IF m.index = 0 THEN <<s[i]>> \o LinkAnchored(s, i + 1)
             ELSE SpecifiedAnchor(m.spec, m.content) \o LinkAnchored(s, m.end + 1)

\* s with each style token replaced, where it stands, by its enclosed text
RECURSIVE StyleUnwrapped(_, _)
StyleUnwrapped(s, i) ==
    IF i > Len(s) THEN <<>>
    ELSE LET m == StyleTokenAt(s, i)
         IN  IF m.index = 0 THEN <<s[i]>> \o StyleUnwrapped(s, i + 1)
             ELSE m.content \o StyleUnwrapped(s, m.end + 1)

\* the style attribute the modifiers of a style spec ask for: the valid color,
\* then the font weight of the weight keyword
SpecifiedStyles(spec) ==
    LET split   == Split(spec, "|")
        parts   == {trim(split[i]) : i \in 1..Len(split)}
        colors  == {From(p, 7) : p \in {p \in parts : startsWith(p, <<"c","o","l","o","r",":">>) /\ IsHexColor(From(p, 7))}}
        weights == {<<<<"n","o","r","m","a","l">>, <<"4","0","0">>>>, <<<<"s","e","m","i","b","o","l","d">>, <<"6","0","0">>>>, <<<<"b","o","l","d">>, <<"7","0","0">>>>}
        asked   == {w \in weights : w[1] \in parts}
    IN  (IF colors = {} THEN <<>> ELSE <<"c","o","l","o","r",":">> \o (CHOOSE c \in colors : TRUE) \o <<";">>)
        \o (IF asked = {} THEN <<>> ELSE <<"f","o","n","t","-","w","e","i","g","h","t",":">> \o (CHOOSE w \in asked : TRUE)[2] \o <<";">>)

\* s with each style token replaced, where it stands, by the span of the
\* styles its spec asks for around its enclosed text
RECURSIVE StyleSpanned(_, _)
StyleSpanned(s, i) ==
    IF i > Len(s) THEN <<>>
    ELSE LET m == StyleTokenAt(s, i)
         IN  IF m.index = 0 THEN <<s[i]>> \o StyleSpanned(s, i + 1)
             ELSE <<"<","s","p","a","n"," ","s","t","y","l","e","=","\"">> \o SpecifiedStyles(m.spec) \o <<"\"",">">> \o m.content \o <<"<","/","s","p","a","n",">">>
                  \o StyleSpanned(s, m.end + 1)

\* the piece each block renderer starts its cell with
BlockLandmark(type) ==
    CASE type = "title"         -> "<td style=\"font-size: "
      [] type = "paragraph"     -> "<td style=\"color: "
      [] type = "image"         -> "<img src=\""
      [] type = "button"        -> "<a href=\""
      [] type = "divider"       -> "<td style=\"border-bottom: "
      [] type = "highlight-box" -> "<td style=\"padding: "

\* the pieces that start the document, a section or a block, or end the document
Landmarks ==
    {"<!DOCTYPE html>", "<!-- HEADER SECTION -->", "<!-- BODY BLOCKS SECTION -->",
     "<!-- HELP SECTION (if provided) -->", "<!-- Kolom Teks -->", "<!-- COMPLIANCE SECTION -->",
     "<!-- FOOTER SECTION -->", "</html>"} \cup {BlockLandmark(type) : type \in BlockTypes}

\* the pieces of a rendered document after the comment that opens its
\* compliance section and before the one that opens its footer
ComplianceMarkup(html) ==
    SubSeq(html, Min({i \in 1..Len(html) : html[i] = "<!-- COMPLIANCE SECTION -->"}) + 1,
                 Min({i \in 1..Len(html) : html[i] = "<!-- FOOTER SECTION -->"}) - 1)

\* the style declarations a rendered block holds when each styling attribute
\* has the block's own value, or its default when the block has none
StyleDeclarations(b) ==
    CASE b.type = "title" ->
            {<<";font-weight: 700;color: ">> \o Field(b, "color", <<"#","1","a","1","a","1","a">>) \o <<";padding-bottom: ">>,
             <<";padding-bottom: ">> \o NatToStr(Field(b, "paddingBottom", 20))
                 \o <<"px;margin-top: 0;line-height: 1.3\">">>}
      [] b.type = "paragraph" ->
            {<<"<td style=\"color: ">> \o Field(b, "color", <<"#","3","3","4","1","5","5">>) \o <<";line-height: ">>,
             <<";line-height: ">> \o TenthsToStr(Field(b, "lineHeight", 16)) \o <<";padding-bottom: ">>,
             <<";padding-bottom: ">> \o NatToStr(Field(b, "paddingBottom", 16)) \o <<"px;margin-top: 0;text-align: ">>}
      [] b.type = "image" ->
            {<<"<td style=\"padding-bottom: ">> \o NatToStr(Field(b, "paddingBottom", 16))
                 \o <<"px;margin-top: 0;text-align: center\">">>,
             <<" style=\"max-width: ">> \o NatToStr(Field(b, "maxWidth", 600))
                 \o <<"px;width: 100%;height: auto;display: block">>}
      [] b.type = "button" ->
            {<<"<td style=\"margin-top: ">> \o NatToStr(Field(b, "marginTop", 12)) \o <<"px;padding-bottom: ">>,
             <<"px;padding-bottom: ">> \o NatToStr(Field(b, "paddingBottom", 0)) \o <<"px;text-align: ">>,
             <<";text-decoration: none;border-radius: ">> \o NatToStr(Field(b, "borderRadius", 6))
                 \o <<"px;display: inline-block;font-weight: bold;border: none;cursor: pointer\">">>}
      [] b.type = "divider" ->
            {<<"<td style=\"border-bottom: ">> \o NatToStr(Field(b, "height", 1)) \o <<"px solid ">>
                 \o Field(b, "color", <<"#","e","6","e","9","e","e">>) \o <<"; height: 0;\">">>,
             <<"<td style=\"height: ">> \o NatToStr(Field(b, "margin", 16)) \o <<"px;\">">>}
      [] b.type = "highlight-box" ->
            {<<";border-radius: ">> \o NatToStr(Field(b, "borderRadius", 8)) \o <<"px;padding-bottom: ">>,
             <<"px;padding-bottom: ">> \o NatToStr(Field(b, "paddingBottom", 20)) \o <<"px;margin-top: 0 ">>}

\* C22: the HTML a block renderer returns holds, for each optional styling
\* attribute, the block's own value when the block carries one, the numeric
\* value 0 included, and the default only when the block carries none.
C22_OwnValueOrDefault ==
    call = "renderBlock" => \A declaration \in StyleDeclarations(block) : includes(result, declaration)

\* C23: a step of the editor that adds a block leaves the document with the
\* isValid flag and the validationErrors list of a non-strict validation of
\* the document with the new block, and stores the sanitized new block.
C23_AddRevalidatesAndSanitizes ==
    [][Len(email'.body.blocks) > Len(email.body.blocks) =>
          /\ \A summary \in {getValidationSummary(email', FALSE)} :
                /\ email'.isValid = summary.isValid
                /\ email'.validationErrors = summary.errors
          /\ email'.body.blocks[Len(email'.body.blocks)] = sanitizeBlock(createNewBlock(form, now))]_vars

\* the kinds of formatting token
TokenKinds == {<<"b","o","l","d">>, <<"l","i","n","k">>, <<"s","t","y","l","e">>}

\* from position i on, with the token of kind open not yet closed (<<>> for
\* none), every opening marker stands outside a token and every closing
\* marker closes the open token
RECURSIVE TokensApart(_, _, _)
TokensApart(s, i, open) ==
    IF i > Len(s) THEN open = <<>>
    ELSE IF \E k \in TokenKinds : StartsWithAt(s, i, <<"{","{">> \o k \o <<":">>)
         THEN open = <<>>
              /\ TokensApart(s, i + 1, CHOOSE k \in TokenKinds : StartsWithAt(s, i, <<"{","{">> \o k \o <<":">>))
    ELSE IF \E k \in TokenKinds : StartsWithAt(s, i, <<"{","{","/">> \o k \o <<"}","}">>)
         THEN StartsWithAt(s, i, <<"{","{","/">> \o open \o <<"}","}">>) /\ TokensApart(s, i + 1, <<>>)
    ELSE TokensApart(s, i + 1, open)

\* C24: after any sequence of applyInlineFormatting, applyLinkFormatting,
\* applyCombinedLinkFormatting and applyStyleFormatting on selections of a
\* text, no formatting token of the text lies inside another or overlaps one.
C24_TokensNeverNested == TokensApart(text, 1, <<>>)

\* C25: parseInlineFormatting returns on every input string: its style loop
\* and its link loop, which scan the string they replace in, stop after
\* finitely many replacements.
C25_ParserLoopsTerminate == call = "parseInlineFormatting" => result # NoReturn

\* the types of the blocks of a document, in order
TypesOf(doc) == [i \in 1..Len(doc.body.blocks) |-> doc.body.blocks[i].type]

\* the types can be laid on the required order from left to right: each on an
\* entry of its type or on "any", none on an entry before the one of the
\* type before it
FollowsOrder(types, requireOrder) ==
    \E at \in [1..Len(types) -> 1..Len(requireOrder)] :
       /\ \A i \in 1..Len(types) : requireOrder[at[i]] \in {"any", types[i]}
       /\ \A i \in 2..Len(types) : at[i - 1] <= at[i]

\* C26: for a template with reordering disabled and a required order, and a
\* document of blocks whose types the order lists, blockOrderRule reports
\* BLOCK_ORDER_VIOLATION if and only if the blocks do not follow the order;
\* a document whose types are the order itself has no violation.
C26_ViolationIffOutOfOrder ==
    (/\ call = "blockOrderRule"
     /\ \A i \in 1..Len(email.body.blocks) :
           email.body.blocks[i].type \in SeqToSet(getTemplateConfig(templateType).requireBlockOrder))
    => ((\E i \in 1..Len(result) : result[i].code = "BLOCK_ORDER_VIOLATION")
        <=> ~FollowsOrder(TypesOf(email), getTemplateConfig(templateType).requireBlockOrder))

\* C27: isEmailDocumentValid(email, strict) is getValidationSummary(email,
\* strict).isValid, for every document and both values of strict.
C27_ValidIsSummaryValid ==
    call = "isEmailDocumentValid" => result.valid = result.summary.isValid

\* C29: sanitizeTextContent is idempotent for every block type: the sanitized
\* content, sanitized again for the same block type, is unchanged.
C29_SanitizeTextContentIdempotent ==
    call = "sanitizeTextContent" => sanitizeTextContent(result, blockType) = result

\* C28: after any sequence of add, update and remove operations of the editor
\* on the document of createEmail, email.blocks and email.body.blocks hold the
\* same blocks in the same order.
C28_BlocksMirrorBodyBlocks == email.blocks = email.body.blocks

\* a document left with its third block after two removals, a divider that
\* an update has given a content
C28_Witness ==
    /\ Len(email.body.blocks) = 1
    /\ email.body.blocks[1].id = <<"b","l","o","c","k","-","3">>
    /\ email.body.blocks[1].type = "divider"
    /\ Has(email.body.blocks[1], "content")
    /\ email.blocks = email.body.blocks

\* C30: a step that selects a block, from no selection or from another block,
\* leaves the form with the state of the selected block: its type and its
\* field values.
C30_FormShowsSelectedBlock ==
    [][(selectedBlockId' # selectedBlockId /\ selectedBlockId' # NoId)
          => form' = getInitialState(selectedBlock')]_vars

\* C13: in a text without style and link tokens, parseInlineFormatting
\* replaces each bold token of a valid hex color by the span of that color
\* around the enclosed text, character for character, and leaves the text
\* outside the tokens unchanged, for any number of bold tokens.
C13_BoldTokensExpandedInPlace ==
    (/\ call = "parseInlineFormatting"
     /\ ~includes(text, <<"{","{","s","t","y","l","e",":">>)
     /\ ~includes(text, <<"{","{","l","i","n","k",":">>)) => result = BoldExpanded(text, 1)

\* C14: parseInlineFormatting returns for every input string, and a text in
\* which no bold, style or link token is complete and well formed (unknown
\* kind, missing closing marker, bold with an invalid color) is returned
\* unchanged.
C14_ReturnsAndKeepsMalformedTokens ==
    call = "parseInlineFormatting" =>
        /\ result # NoReturn
        /\ (/\ StaticMatches(text, 1, <<"b","o","l","d">>) = <<>>
            /\ StaticMatches(text, 1, <<"s","t","y","l","e">>) = <<>>
            /\ StaticMatches(text, 1, <<"l","i","n","k">>) = <<>>) => result = text

\* C15: in a text without bold and link tokens whose style tokens all have a
\* spec without a recognized modifier (an empty spec, a spec holding only an
\* invalid color), parseInlineFormatting replaces every style token by its
\* enclosed text alone, wherever it stands and whatever tokens come before it.
C15_StyleTokensWithoutModifierUnwrapped ==
    (/\ call = "parseInlineFormatting"
     /\ ~includes(text, <<"{","{","b","o","l","d",":">>)
     /\ ~includes(text, <<"{","{","l","i","n","k",":">>)
     /\ \A i \in 1..Len(text) :
            StyleTokenAt(text, i).index # 0 => ~parseStyleModifiers(StyleTokenAt(text, i).spec).isValid)
        => result = StyleUnwrapped(text, 1)

C18_AnchorsAreUnderlined ==
    call = "parseInlineFormatting" =>
        /\ includes(result, <<"<","a"," ","h","r","e","f","=","\"">>) =>
              /\ includes(result, <<";","t","e","x","t","-","d","e","c","o","r","a","t","i","o","n",":","u","n","d","e","r","l","i","n","e",";","f","o","n","t","-","w","e","i","g","h","t",":">>)
              /\ ~includes(result, <<"t","e","x","t","-","d","e","c","o","r","a","t","i","o","n",":","n","o","n","e">>)
        /\ \A case \in testCases : text = case[1] => result = case[2]

C20_SectionsInFixedOrder ==
    call = "renderEmail" =>
        /\ result # NoReturn
        /\ SelectSeq(result, LAMBDA piece : piece \in Landmarks) =
               <<"<!DOCTYPE html>", "<!-- HEADER SECTION -->", "<!-- BODY BLOCKS SECTION -->">>
               \o [i \in 1..Len(email.body.blocks) |-> BlockLandmark(email.body.blocks[i].type)]
               \o <<"<!-- HELP SECTION (if provided) -->">>
               \o (IF email.helpSection THEN <<"<!-- Kolom Teks -->">> ELSE <<>>)
               \o <<"<!-- COMPLIANCE SECTION -->", "<!-- FOOTER SECTION -->", "</html>">>

\* C21: the compliance section of the rendered document holds the document's
\* complianceSection.text, and holds the registration number in bold when
\* complianceSection.sandboxNumber is set and no bold markup for it when not.
C21_ComplianceShowsTextAndNumber ==
    (call = "renderEmail" /\ result # NoReturn) =>
        /\ includes(ComplianceMarkup(result), email.complianceSection.text)
        /\ IF Has(email.complianceSection, "sandboxNumber")
           THEN includes(ComplianceMarkup(result),
                         <<"<strong>">> \o email.complianceSection.sandboxNumber \o <<"</strong>">>)
           ELSE ~includes(ComplianceMarkup(result), <<"<strong>">>)

====
